---------------------------- MODULE Spec2Model ----------------------------
(***************************************************************************)
(* State-machine model of the DBPFKit decoding pipeline: the QFS           *)
(* decompressor, the DBPF archive reader, the bounds-checked span reader,  *)
(* the RUL0 transformation pipeline, the LText and Exemplar parsers and    *)
(* the FSH bitmap conversion.                                              *)
(*                                                                         *)
(* Byte buffers are sequences of 0..255; the C++ index i of a buffer is    *)
(* element i+1 of the sequence.  32-bit and 64-bit unsigned values are     *)
(* kept as little-endian sequences of 16-bit limbs so that the wrap-around *)
(* of the machine arithmetic is computed, not assumed.                     *)
(***************************************************************************)
EXTENDS Integers, Sequences, FiniteSets, TLC

VARIABLES
    input,      \* QFS: the span handed to Decompressor::Decompress
    dec,        \* QFS: the frame of Decompress / DecompressInternal
    mData,      \* SafeSpanReader::mData
    mOffset,    \* SafeSpanReader::mOffset
    call,       \* SafeSpanReader: the last call made and what it returned
    disk,       \* DBPF: the bytes handed to LoadBuffer / of the file at the path
    reader,     \* DBPF::Reader: its members
    loaded,     \* DBPF: the last load and what it returned
    ret,        \* DBPF: the last query and what it returned
    rul,        \* RUL0: the Record under construction and the stage of Parse
    turn,       \* RUL0: the piece being turned by ApplyRotation, and how often
    ltext,      \* LText: the buffer under test, what Parse returned and its ToUtf8
    exm,        \* Exemplar: the buffer under test, what Parse returned and the last FindProperty
    fsh,        \* FSH: the bitmap and the vector handed to ConvertToRGBA8, and its result
    fshFile,    \* FSH: the buffer handed to Parse, and its result
    described,  \* TGI: the key handed to Describe and the label returned
    s3d         \* S3D: the buffer handed to Parse, what it was built from, and the result

qfsVars == <<input, dec>>

spanVars == <<mData, mOffset, call>>

dbpfVars == <<disk, reader, loaded, ret>>

rulVars == <<rul, turn>>

lTextVars == <<ltext>>

exmVars == <<exm>>

fshVars == <<fsh, fshFile>>

tgiVars == <<described>>

s3dVars == <<s3d>>

vars == <<input, dec, mData, mOffset, call, disk, reader, loaded, ret, rul, turn, ltext, exm, fsh, fshFile, described, s3d>>

\* What the actions of one component leave alone.
notQfsVars == <<spanVars, dbpfVars, rulVars, lTextVars, exmVars, fshVars, tgiVars, s3dVars>>

notSpanVars == <<qfsVars, dbpfVars, rulVars, lTextVars, exmVars, fshVars, tgiVars, s3dVars>>

notDbpfVars == <<qfsVars, spanVars, rulVars, lTextVars, exmVars, fshVars, tgiVars, s3dVars>>

notRulVars == <<qfsVars, spanVars, dbpfVars, lTextVars, exmVars, fshVars, tgiVars, s3dVars>>

notLTextVars == <<qfsVars, spanVars, dbpfVars, rulVars, exmVars, fshVars, tgiVars, s3dVars>>

notExmVars == <<qfsVars, spanVars, dbpfVars, rulVars, lTextVars, fshVars, tgiVars, s3dVars>>

notFshVars == <<qfsVars, spanVars, dbpfVars, rulVars, lTextVars, exmVars, tgiVars, s3dVars>>

notTgiVars == <<qfsVars, spanVars, dbpfVars, rulVars, lTextVars, exmVars, fshVars, s3dVars>>

notS3dVars == <<qfsVars, spanVars, dbpfVars, rulVars, lTextVars, exmVars, fshVars, tgiVars>>

(***************************************************************************)
(* Generic helpers                                                         *)
(***************************************************************************)
Max(a, b) == IF a >= b THEN a ELSE b

Min(a, b) == IF a <= b THEN a ELSE b

\* The sequence s from C++ index `from` (0-based), `len` elements, clipped
\* to what s holds.
Slice(s, from, len) ==
    [i \in 1..Max(0, Min(len, Len(s) - from)) |-> s[from + i]]

(***************************************************************************)
(* Unsigned machine words: little-endian sequences of 16-bit limbs         *)
(* (uint32_t: 2 limbs, size_t and uint64_t: 4 limbs).                      *)
(***************************************************************************)
Limb == 65535 + 1

\* The natural number x (below 2^31) as a word of n limbs.
RECURSIVE ToWord(_, _)
ToWord(x, n) ==
    IF n = 0 THEN <<>> ELSE <<x % Limb>> \o ToWord(x \div Limb, n - 1)

\* Whether the word is below 2^30, where it can be used as a number.
IsSmall(w) == \A i \in 1..Len(w) : (i = 1) \/ (i = 2 /\ w[i] < 16384) \/ w[i] = 0

\* The number a small word stands for.
ToNat(w) == w[1] + (IF Len(w) >= 2 THEN w[2] * Limb ELSE 0)

\* Zero extension (uint32_t to size_t) and truncation (to uint32_t).
Widen(w, n) == [i \in 1..n |-> IF i <= Len(w) THEN w[i] ELSE 0]

\* a + b of two words of the same width, modulo 2^(16 * width).
RECURSIVE AddCarry(_, _, _)
AddCarry(a, b, carry) ==
    IF a = <<>> THEN <<>>
    ELSE <<(Head(a) + Head(b) + carry) % Limb>>
         \o AddCarry(Tail(a), Tail(b), (Head(a) + Head(b) + carry) \div Limb)

WordAdd(a, b) == AddCarry(a, b, 0)

\* a * k for a small factor k, modulo 2^(16 * width).
RECURSIVE MulCarry(_, _, _)
MulCarry(a, k, carry) ==
    IF a = <<>> THEN <<>>
    ELSE <<(Head(a) * k + carry) % Limb>>
         \o MulCarry(Tail(a), k, (Head(a) * k + carry) \div Limb)

WordMul(a, k) == MulCarry(a, k, 0)

\* a < b, a <= b, a > b on words of the same width.
RECURSIVE WordLess(_, _)
WordLess(a, b) ==
    IF a = <<>> THEN FALSE
    ELSE LET n == Len(a)
         IN  IF a[n] # b[n] THEN a[n] < b[n]
             ELSE WordLess(SubSeq(a, 1, n - 1), SubSeq(b, 1, n - 1))

WordLeq(a, b) == a = b \/ WordLess(a, b)

WordGreater(a, b) == WordLess(b, a)

\* a - b for b <= a.
RECURSIVE SubBorrow(_, _, _)
SubBorrow(a, b, borrow) ==
    IF a = <<>> THEN <<>>
    ELSE LET d == Head(a) - Head(b) - borrow
         IN  <<IF d < 0 THEN d + Limb ELSE d>>
             \o SubBorrow(Tail(a), Tail(b), IF d < 0 THEN 1 ELSE 0)

WordSub(a, b) == SubBorrow(a, b, 0)

\* size_t values.
SizeT(x) == ToWord(x, 4)

RECURSIVE Concat(_)
Concat(ss) == IF ss = <<>> THEN <<>> ELSE Head(ss) \o Concat(Tail(ss))

(***************************************************************************)
(* QFS decompressor (src/src/QFSDecompressor.cpp)                          *)
(***************************************************************************)
MAGIC_COMPRESSED == 4347    \* 0x10FB

\* Bounds of the QFS inputs: the number of control records of a stream
\* and the largest declared uncompressed size.
MaxRecords == 2

MaxDeclared == 7

\* data[i] of the input span; a read at or beyond the end is outside the
\* buffer (its value is arbitrary; the frame's inHi records that it happened).
InByte(data, i) == IF i >= 0 /\ i < Len(data) THEN data[i + 1] ELSE 0

\* (data[0] & 0xFE) << 8 | data[1]
MagicOf(data) == (InByte(data, 0) - (InByte(data, 0) % 2)) * 256 + InByte(data, 1)

Read24BE(data) ==
    InByte(data, 2) * 65536 + InByte(data, 3) * 256 + InByte(data, 4)

IsQFSCompressed(buffer) ==
    IF Len(buffer) < 5 THEN FALSE ELSE MagicOf(buffer) = MAGIC_COMPRESSED

GetUncompressedSize(buffer) ==
    IF ~IsQFSCompressed(buffer) THEN 0 ELSE Read24BE(buffer)

\* The frame before Decompress is entered.
DecFrame0 ==
    [pc |-> "enter", result |-> "none", error |-> "",
     outputSize |-> 0, output |-> <<>>,
     inPos |-> 0, outPos |-> 0, control1 |-> 0,
     inHi |-> 0, outHi |-> 0, badOut |-> FALSE]

QfsFail(d, msg) == [d EXCEPT !.pc = "failed", !.error = msg]

\* One read of input[inPos++].
ReadIn(d, data) ==
    [d EXCEPT !.inPos = d.inPos + 1, !.inHi = Max(d.inHi, d.inPos + 1)]

\* buffer[i] = v on the output buffer of outputSize bytes.
PutOut(d, i, v) ==
    [d EXCEPT !.output = IF i >= 0 /\ i < Len(d.output)
                         THEN [d.output EXCEPT ![i + 1] = v] ELSE d.output,
              !.outHi = Max(d.outHi, i + 1),
              !.badOut = d.badOut \/ i < 0]

GetOut(d, i) == IF i >= 0 /\ i < Len(d.output) THEN d.output[i + 1] ELSE 0

\* CopyLiteral(input + inPos, output + outPos, len): memcpy of len bytes.
RECURSIVE CopyLiteralFrom(_, _, _, _)
CopyLiteralFrom(d, data, i, len) ==
    IF i >= len THEN d
    ELSE CopyLiteralFrom(
             [PutOut(d, d.outPos + i, InByte(data, d.inPos + i))
                 EXCEPT !.inHi = Max(d.inHi, d.inPos + i + 1)],
             data, i + 1, len)

CopyLiteral(d, data, len) ==
    IF len = 0 THEN d ELSE CopyLiteralFrom(d, data, 0, len)

\* The byte loop of OffsetCopy: buffer[destPos + i] = buffer[srcPos + i].
RECURSIVE OffsetCopyLoop(_, _, _, _, _)
OffsetCopyLoop(d, destPos, srcPos, i, len) ==
    IF i >= len THEN d
    ELSE OffsetCopyLoop(
             [PutOut(d, destPos + i, GetOut(d, srcPos + i))
                 EXCEPT !.outHi = Max(d.outHi, srcPos + i + 1),
                        !.badOut = d.badOut \/ srcPos + i < 0],
             destPos, srcPos, i + 1, len)

\* The guard of OffsetCopy.
OffsetInvalid(offset, destPos) == offset <= 0 \/ offset > destPos

OffsetCopy(d, destPos, offset, len) ==
    IF OffsetInvalid(offset, destPos)
    THEN QfsFail(d, "Invalid QFS offset")
    ELSE OffsetCopyLoop(d, destPos, destPos - offset, 0, len)

\* The common tail of the three back-reference blocks: literal run, then
\* the copy from the output produced so far.
LiteralThenCopy(d, data, literalLen, offset, copyLen, which) ==
    IF d.inPos + literalLen > Len(data)
    THEN QfsFail(d, "QFS literal overruns input " \o which)
    ELSE IF d.outPos + literalLen > d.outputSize
    THEN QfsFail(d, "QFS literal overruns output " \o which)
    ELSE LET d1 == CopyLiteral(d, data, literalLen)
             d2 == [d1 EXCEPT !.outPos = d1.outPos + literalLen,
                              !.inPos = d1.inPos + literalLen]
         IN  IF d2.outPos + copyLen > d2.outputSize
             THEN QfsFail(d2, "QFS copy overruns output " \o which)
             ELSE LET d3 == OffsetCopy(d2, d2.outPos, offset, copyLen)
                  IN  IF d3.pc = "failed" THEN d3
                      ELSE [d3 EXCEPT !.outPos = d3.outPos + copyLen]

\* The literal-only blocks (raw and terminator).
LiteralOnly(d, data, literalLen, which) ==
    IF d.inPos + literalLen > Len(data)
    THEN QfsFail(d, "QFS literal overruns input " \o which)
    ELSE IF d.outPos + literalLen > d.outputSize
    THEN QfsFail(d, "QFS literal overruns output " \o which)
    ELSE LET d1 == CopyLiteral(d, data, literalLen)
         IN  [d1 EXCEPT !.outPos = d1.outPos + literalLen,
                        !.inPos = d1.inPos + literalLen]

\* control1 = input[inPos++] & 0xFF
ReadControl(d, data) ==
    [ReadIn(d, data) EXCEPT !.control1 = InByte(data, d.inPos)]

ShortTruncated(inPos, inputSize) == inPos >= inputSize

\* control1 <= 0x7F
ShortBlock(d0, data) ==
    LET d == ReadControl(d0, data)
        c1 == d.control1
    IN  IF ShortTruncated(d.inPos, Len(data))
        THEN QfsFail(d, "QFS truncated in control1<=0x7F block")
        ELSE LET control2 == InByte(data, d.inPos)
                 e == ReadIn(d, data)
                 literalLen == c1 % 4
                 offset == ((c1 \div 32) % 4) * 256 + control2 + 1
                 copyLen == ((c1 \div 4) % 8) + 3
             IN  LiteralThenCopy(e, data, literalLen, offset, copyLen, "(short block)")

MidTruncated_OffByOne(inPos, inputSize) == inPos >= inputSize

MidTruncated(inPos, inputSize) == inPos + 1 >= inputSize

\* control1 <= 0xBF
MidBlock(d0, data) ==
    LET d == ReadControl(d0, data)
        c1 == d.control1
    IN  IF MidTruncated(d.inPos, Len(data))
        THEN QfsFail(d, "QFS truncated in control1<=0xBF block")
        ELSE LET control2 == InByte(data, d.inPos)
                 control3 == InByte(data, d.inPos + 1)
                 e == ReadIn(ReadIn(d, data), data)
                 literalLen == (control2 \div 64) % 4
                 offset == (control2 % 64) * 256 + control3 + 1
                 copyLen == (c1 % 64) + 4
             IN  LiteralThenCopy(e, data, literalLen, offset, copyLen, "(mid block)")

LongTruncated(inPos, inputSize) == inPos + 2 >= inputSize

\* control1 <= 0xDF
LongBlock(d0, data) ==
    LET d == ReadControl(d0, data)
        c1 == d.control1
    IN  IF LongTruncated(d.inPos, Len(data))
        THEN QfsFail(d, "QFS truncated in control1<=0xDF block")
        ELSE LET control2 == InByte(data, d.inPos)
                 control3 == InByte(data, d.inPos + 1)
                 control4 == InByte(data, d.inPos + 2)
                 e == ReadIn(ReadIn(ReadIn(d, data), data), data)
                 literalLen == c1 % 4
                 offset == ((c1 \div 16) % 2) * 65536 + control2 * 256 + control3 + 1
                 copyLen == ((c1 \div 4) % 4) * 256 + control4 + 5
             IN  LiteralThenCopy(e, data, literalLen, offset, copyLen, "(long block)")

\* control1 <= 0xFB
RawBlock(d0, data) ==
    LET d == ReadControl(d0, data)
    IN  LiteralOnly(d, data, (d.control1 % 32) * 4 + 4, "(raw block)")

\* control1 >= 0xFC: the literal run, then break.
TerminatorBlock(d0, data) ==
    LET d == ReadControl(d0, data)
        e == LiteralOnly(d, data, d.control1 % 4, "(terminator block)")
    IN  IF e.pc = "failed" THEN e ELSE [e EXCEPT !.pc = "after"]

\* while (inPos < inputSize && control1 < 0xFC)
LoopCond(d, data) == d.inPos < Len(data) /\ d.control1 < 252

\* The check after the loop.
LengthMismatch(outPos, outputSize) == outPos # outputSize

\* The tail of DecompressInternal and of Decompress: the length check, and
\* output.clear() with the error handed on when the decoder failed.
Finish(d) ==
    LET e == IF d.pc # "failed" /\ LengthMismatch(d.outPos, d.outputSize)
             THEN QfsFail(d, "QFS decompression wrote fewer or more bytes")
             ELSE d
    IN  IF e.pc = "failed"
        THEN [e EXCEPT !.pc = "returned", !.result = "error", !.output = <<>>]
        ELSE [e EXCEPT !.pc = "returned", !.result = "ok"]

\* Decompress up to the call of DecompressInternal.
Enter(d, data) ==
    IF Len(data) < 5
    THEN [d EXCEPT !.pc = "returned", !.result = "error",
                   !.error = "QFS payload too small"]
    ELSE IF MagicOf(data) # MAGIC_COMPRESSED
    THEN [d EXCEPT !.pc = "returned", !.result = "error",
                   !.error = "QFS magic mismatch"]
    ELSE LET uncompressedSize == Read24BE(data)
             e == [d EXCEPT !.outputSize = uncompressedSize,
                            !.output = [i \in 1..uncompressedSize |-> 0]]
         IN  IF uncompressedSize = 0
             THEN [e EXCEPT !.pc = "returned", !.result = "ok"]
             ELSE [e EXCEPT !.pc = "loop",
                            !.inPos = IF InByte(data, 0) % 2 = 1 THEN 8 ELSE 5,
                            !.outPos = 0, !.control1 = 0]

\* One pass of the loop body, chosen by the control byte at inPos.
Iterate(d, data) ==
    LET c == InByte(data, d.inPos)
    IN  IF c <= 127 THEN ShortBlock(d, data)
        ELSE IF c <= 191 THEN MidBlock(d, data)
        ELSE IF c <= 223 THEN LongBlock(d, data)
        ELSE IF c <= 251 THEN RawBlock(d, data)
        ELSE TerminatorBlock(d, data)

\* DecompressInternal from the frame d to its return.
RECURSIVE RunLoop(_, _)
RunLoop(d, data) ==
    IF d.pc = "loop" /\ LoopCond(d, data)
    THEN RunLoop(Iterate(d, data), data)
    ELSE Finish(d)

\* Decompress(input, output) as a function of the input.
Decompress(data) ==
    LET e == Enter(DecFrame0, data)
    IN  IF e.pc = "returned" THEN e ELSE RunLoop(e, data)

(***************************************************************************)
(* Specification SpecQFS: Decompress run on one input, one loop pass per   *)
(* step.                                                                   *)
(***************************************************************************)
\* The control records the inputs are built from: for each opcode class a
\* record with and one without a literal run, back-references at offset 1
\* and at offset 2.
RecordForms ==
    { <<1, 0, 65>>,           \* 0x01: 1 literal, copy 3 from offset 1
      <<0, 0>>,               \* 0x00: no literal, copy 3 from offset 1
      <<1, 1, 66>>,           \* 0x01: 1 literal, copy 3 from offset 2
      <<2, 1, 65, 66>>,       \* 0x02: 2 literals, copy 3 from offset 2
      <<128, 64, 0, 66>>,     \* 0x80: 1 literal, copy 4 from offset 1
      <<128, 0, 0>>,          \* 0x80: no literal, copy 4 from offset 1
      <<193, 0, 0, 0, 67>>,   \* 0xC1: 1 literal, copy 5 from offset 1
      <<192, 0, 0, 0>>,       \* 0xC0: no literal, copy 5 from offset 1
      <<224, 65, 66, 67, 68>>,\* 0xE0: 4 literals
      <<252>>,                \* 0xFC: terminator
      <<253, 69>> }           \* 0xFD: terminator with 1 literal

RecordSeqs == UNION { [1..n -> RecordForms] : n \in 0..MaxRecords }

\* Header of a stream that declares `size` bytes; with bit 0 of byte 0 set
\* the header is 8 bytes long.
QfsHeader(b0, size) ==
    <<b0, 251, 0, 0, size>> \o (IF b0 % 2 = 1 THEN <<0, 0, 0>> ELSE <<>>)

\* Every stream of up to MaxRecords records behind either header, whole or
\* cut short at any length from 4 bytes on, and two inputs the detection
\* rejects.
QfsInputs ==
    { SubSeq(QfsHeader(b0, size) \o Concat(rs), 1, n) :
        <<b0, size, rs, n>> \in
          { t \in {16, 17} \X (0..MaxDeclared) \X RecordSeqs \X (4..(8 + 5 * MaxRecords)) :
              t[4] <= Len(QfsHeader(t[1], t[2]) \o Concat(t[3])) } }
    \cup { <<16, 250, 0, 0, 1, 253, 69>>, <<>> }

\* No decompression under way.
QfsIdle ==
    /\ input = <<>>
    /\ dec = DecFrame0

QfsEnter ==
    /\ dec.pc = "enter"
    /\ dec' = Enter(dec, input)
    /\ UNCHANGED <<input, notQfsVars>>

QfsShortBlock ==
    /\ dec.pc = "loop" /\ LoopCond(dec, input)
    /\ InByte(input, dec.inPos) <= 127
    /\ dec' = ShortBlock(dec, input)
    /\ UNCHANGED <<input, notQfsVars>>

QfsMidBlock ==
    /\ dec.pc = "loop" /\ LoopCond(dec, input)
    /\ InByte(input, dec.inPos) \in 128..191
    /\ dec' = MidBlock(dec, input)
    /\ UNCHANGED <<input, notQfsVars>>

QfsLongBlock ==
    /\ dec.pc = "loop" /\ LoopCond(dec, input)
    /\ InByte(input, dec.inPos) \in 192..223
    /\ dec' = LongBlock(dec, input)
    /\ UNCHANGED <<input, notQfsVars>>

QfsRawBlock ==
    /\ dec.pc = "loop" /\ LoopCond(dec, input)
    /\ InByte(input, dec.inPos) \in 224..251
    /\ dec' = RawBlock(dec, input)
    /\ UNCHANGED <<input, notQfsVars>>

QfsTerminatorBlock ==
    /\ dec.pc = "loop" /\ LoopCond(dec, input)
    /\ InByte(input, dec.inPos) >= 252
    /\ dec' = TerminatorBlock(dec, input)
    /\ UNCHANGED <<input, notQfsVars>>

QfsFinish ==
    /\ \/ dec.pc \in {"failed", "after"}
       \/ dec.pc = "loop" /\ ~LoopCond(dec, input)
    /\ dec' = Finish(dec)
    /\ UNCHANGED <<input, notQfsVars>>

QfsNext ==
    \/ QfsEnter
    \/ QfsShortBlock
    \/ QfsMidBlock
    \/ QfsLongBlock
    \/ QfsRawBlock
    \/ QfsTerminatorBlock
    \/ QfsFinish

(***************************************************************************)
(* C1: for every input that IsQFSCompressed accepts, Decompress returns    *)
(* either success with an output of exactly the declared 24-bit size (all  *)
(* of it produced by the decoder) or an error, and no step reads the input *)
(* at or beyond its length or touches the output at or beyond the declared *)
(* size.                                                                   *)
(***************************************************************************)
C1_DecompressBounded ==
    IsQFSCompressed(input) =>
        /\ dec.inHi <= Len(input)
        /\ dec.outHi <= dec.outputSize
        /\ ~dec.badOut
        /\ dec.pc = "returned" =>
              \/ /\ dec.result = "ok"
                 /\ Len(dec.output) = Read24BE(input)
                 /\ dec.outPos = Read24BE(input)
              \/ dec.result = "error" /\ dec.output = <<>>

\* A stream of two records with back-references decoded to the end of its
\* input and to the last declared output byte.
C1_Witness ==
    /\ IsQFSCompressed(input)
    /\ dec.pc = "returned" /\ dec.result = "ok"
    /\ dec.outputSize = 7 /\ dec.outHi = 7
    /\ dec.inHi = Len(input)

(***************************************************************************)
(* C2: Decompress returns an error whenever decoding the records against   *)
(* the declared length fails (a literal run or back-reference that leaves  *)
(* the input or the declared output, a back-reference offset beyond the    *)
(* output position, a produced length other than the declared one), for    *)
(* every declared length, 0 included.                                      *)
(***************************************************************************)
\* DecompressInternal(data, size, output, declared) on an accepted input.
DecodeAgainstDeclared(data) ==
    RunLoop([DecFrame0 EXCEPT
                 !.pc = "loop",
                 !.outputSize = Read24BE(data),
                 !.output = [i \in 1..Read24BE(data) |-> 0],
                 !.inPos = IF InByte(data, 0) % 2 = 1 THEN 8 ELSE 5],
            data)

C2_ErrorOnEveryOverrun ==
    (IsQFSCompressed(input) /\ dec.pc = "returned"
        /\ DecodeAgainstDeclared(input).result = "error")
    => dec.result = "error"

(***************************************************************************)
(* The decoder of the opcode table of the format, written on sequences:    *)
(* the output grows by appending, a record is decoded from its control     *)
(* byte alone, and nothing is known of a declared length.                  *)
(***************************************************************************)
\* The fields of the record whose control byte c is at data[pos]: the
\* number of trailing bytes, the literal length, the back-reference
\* length and offset, and whether the record ends the stream.
RefRecord(data, pos) ==
    LET c  == InByte(data, pos)
        b0 == InByte(data, pos + 1)
        b1 == InByte(data, pos + 2)
        b2 == InByte(data, pos + 3)
    IN  IF c <= 127
        THEN [trail |-> 1, lit |-> c % 4, len |-> ((c \div 4) % 8) + 3,
              off |-> ((c \div 32) % 4) * 256 + b0 + 1, last |-> FALSE]
        ELSE IF c <= 191
        THEN [trail |-> 2, lit |-> (b0 \div 64) % 4, len |-> (c % 64) + 4,
              off |-> (b0 % 64) * 256 + b1 + 1, last |-> FALSE]
        ELSE IF c <= 223
        THEN [trail |-> 3, lit |-> c % 4,
              len |-> ((c \div 4) % 4) * 256 + b2 + 5,
              off |-> ((c \div 16) % 2) * 65536 + b0 * 256 + b1 + 1,
              last |-> FALSE]
        ELSE IF c <= 251
        THEN [trail |-> 0, lit |-> (c % 32) * 4 + 4, len |-> 0, off |-> 0,
              last |-> FALSE]
        ELSE [trail |-> 0, lit |-> c % 4, len |-> 0, off |-> 0, last |-> TRUE]

\* len bytes appended one at a time, each the byte `off` places before the
\* end of the output at the moment it is appended.
RECURSIVE RefBackReference(_, _, _)
RefBackReference(out, off, len) ==
    IF len = 0 THEN out
    ELSE RefBackReference(Append(out, out[Len(out) - off + 1]), off, len - 1)

\* The records from data[pos] on decoded behind the output `out`.
RECURSIVE RefRecords(_, _, _)
RefRecords(data, pos, out) ==
    IF pos >= Len(data) THEN [ok |-> TRUE, out |-> out]
    ELSE LET r    == RefRecord(data, pos)
             from == pos + 1 + r.trail
             lits == out \o SubSeq(data, from + 1, from + r.lit)
         IN  IF from + r.lit > Len(data) THEN [ok |-> FALSE, out |-> out]
             ELSE IF r.len > 0 /\ r.off > Len(lits)
             THEN [ok |-> FALSE, out |-> lits]
             ELSE IF r.last THEN [ok |-> TRUE, out |-> lits]
             ELSE RefRecords(data, from + r.lit,
                             RefBackReference(lits, r.off, r.len))

\* The body of a stream (behind its 5 or 8 byte header) decoded.
RefDecode(data) ==
    RefRecords(data, IF InByte(data, 0) % 2 = 1 THEN 8 ELSE 5, <<>>)

(***************************************************************************)
(* C22: for every stream Decompress accepts, the output equals that of the *)
(* decoder of the opcode table: per record the literal bytes first, then   *)
(* the back-reference one byte at a time from outPos - offset (so a        *)
(* back-reference longer than its offset repeats the last `offset` bytes), *)
(* stopping at the first 0xFC..0xFF record, the input behind it without    *)
(* effect.                                                                 *)
(***************************************************************************)
C22_OutputIsReferenceOutput ==
    (dec.pc = "returned" /\ dec.result = "ok")
    => /\ RefDecode(input).ok
       /\ dec.output = RefDecode(input).out

\* The same for the streams that declare at least one byte.
C22_DeclaredOutputIsReferenceOutput ==
    (dec.pc = "returned" /\ dec.result = "ok" /\ Read24BE(input) > 0)
    => /\ RefDecode(input).ok
       /\ dec.output = RefDecode(input).out

\* An accepted stream whose back-reference of length 3 at offset 2 repeats
\* the two literals before it, and one accepted with input left behind its
\* terminator.
C22_OverlapReached ==
    /\ dec.pc = "returned" /\ dec.result = "ok"
    /\ dec.output = <<65, 66, 65, 66, 65>>

C22_TrailingInputReached ==
    /\ dec.pc = "returned" /\ dec.result = "ok"
    /\ dec.output = <<69>>
    /\ dec.inPos < Len(input)

\* A stream that declares no byte and carries a raw record of four.
C22_UndeclaredBodyReached ==
    /\ dec.pc = "returned" /\ dec.result = "ok"
    /\ Read24BE(input) = 0
    /\ RefDecode(input).out = <<65, 66, 67, 68>>

(***************************************************************************)
(* SafeSpanReader (src/src/SafeSpanReader.h).  Lengths are size_t words;   *)
(* the guard of every operation is the sum mOffset + length computed in    *)
(* size_t, compared with mData.size().                                     *)
(***************************************************************************)
\* Bounds: the longest span and the largest distance of a requested length
\* from 0 and from 2^64.
MaxSpan == 3

MaxLength == 3

\* if (mOffset + length > mData.size())
Underrun(offset, length, size) ==
    WordGreater(WordAdd(SizeT(offset), length), SizeT(size))

\* mData.size() - mOffset
Remaining(offset, size) == size - offset

\* The requested lengths: 0..MaxLength and 2^64 - MaxLength .. 2^64 - 1.
Lengths ==
    { SizeT(k) : k \in 0..MaxLength }
    \cup { <<Limb - k, Limb - 1, Limb - 1, Limb - 1>> : k \in 1..MaxLength }

\* What a call reports: the operation, the length asked for, the offset
\* before it, how it ended, and the bytes of mData it touched, from
\* `from` on, `count` of them.
Call(op, length, before, result, count) ==
    [op |-> op, length |-> length, before |-> before,
     result |-> result, from |-> before, count |-> count]

\* mOffset += length
Advance(offset, length) == ToNat(WordAdd(SizeT(offset), length))

\* A reader over an empty span, no call made.
SpanIdle ==
    /\ mData = <<>>
    /\ mOffset = 0
    /\ call = Call("none", SizeT(0), 0, "ok", SizeT(0))

\* ReadLE<T>() for sizeof(T) in {1, 2, 4, 8}.
ReadLE ==
    \E width \in {1, 2, 4, 8} :
        /\ UNCHANGED notSpanVars
        /\ IF Underrun(mOffset, SizeT(width), Len(mData))
           THEN /\ call' = Call("ReadLE", SizeT(width), mOffset, "underrun", SizeT(0))
                /\ UNCHANGED <<mData, mOffset>>
           ELSE /\ call' = Call("ReadLE", SizeT(width), mOffset, "ok", SizeT(width))
                /\ mOffset' = Advance(mOffset, SizeT(width))
                /\ UNCHANGED mData

\* A copy of `length` bytes from mData.data() + mOffset that the guard let
\* through: inside the span it succeeds; beyond it the behaviour is
\* undefined (a fault, an exception of the string constructor, or bytes of
\* whatever follows the span).
CopyOutcomes(offset, length, size) ==
    IF WordLeq(length, SizeT(Remaining(offset, size)))
    THEN {"ok"} ELSE {"ok", "crash"}

ReadString ==
    \E length \in Lengths :
        /\ UNCHANGED notSpanVars
        /\ IF Underrun(mOffset, length, Len(mData))
           THEN /\ call' = Call("ReadString", length, mOffset, "underrun", SizeT(0))
                /\ UNCHANGED <<mData, mOffset>>
           ELSE \E r \in CopyOutcomes(mOffset, length, Len(mData)) :
                   /\ call' = Call("ReadString", length, mOffset, r, length)
                   /\ mOffset' = IF r = "ok" THEN Advance(mOffset, length) ELSE mOffset
                   /\ UNCHANGED mData

ReadBytes ==
    \E length \in Lengths :
        /\ UNCHANGED notSpanVars
        /\ IF Underrun(mOffset, length, Len(mData))
           THEN /\ call' = Call("ReadBytes", length, mOffset, "underrun", SizeT(0))
                /\ UNCHANGED <<mData, mOffset>>
           ELSE \E r \in CopyOutcomes(mOffset, length, Len(mData)) :
                   /\ call' = Call("ReadBytes", length, mOffset, r, length)
                   /\ mOffset' = IF r = "ok" THEN Advance(mOffset, length) ELSE mOffset
                   /\ UNCHANGED mData

\* PeekBytes returns mData.subspan(mOffset, length) and does not advance;
\* the bytes of the returned span are what the caller may touch.
PeekBytes ==
    \E length \in Lengths :
        /\ UNCHANGED notSpanVars
        /\ IF Underrun(mOffset, length, Len(mData))
           THEN /\ call' = Call("PeekBytes", length, mOffset, "underrun", SizeT(0))
                /\ UNCHANGED <<mData, mOffset>>
           ELSE /\ call' = Call("PeekBytes", length, mOffset, "ok", length)
                /\ UNCHANGED <<mData, mOffset>>

Skip ==
    \E bytes \in Lengths :
        /\ UNCHANGED notSpanVars
        /\ IF Underrun(mOffset, bytes, Len(mData))
           THEN /\ call' = Call("Skip", bytes, mOffset, "underrun", SizeT(0))
                /\ UNCHANGED <<mData, mOffset>>
           ELSE /\ call' = Call("Skip", bytes, mOffset, "ok", SizeT(0))
                /\ mOffset' = Advance(mOffset, bytes)
                /\ UNCHANGED mData

Seek ==
    \E position \in 0..(MaxSpan + 1) :
        /\ UNCHANGED notSpanVars
        /\ IF position > Len(mData)
           THEN /\ call' = Call("Seek", SizeT(position), mOffset, "error", SizeT(0))
                /\ UNCHANGED <<mData, mOffset>>
           ELSE /\ call' = Call("Seek", SizeT(position), mOffset, "ok", SizeT(0))
                /\ mOffset' = position
                /\ UNCHANGED mData

SpanNext ==
    \/ ReadLE
    \/ ReadString
    \/ ReadBytes
    \/ PeekBytes
    \/ Skip
    \/ Seek

(***************************************************************************)
(* C8: in every reader state (offset <= size) and for every length n of    *)
(* size_t, ReadString, ReadBytes, PeekBytes and Skip fail with an underrun *)
(* error exactly when n exceeds the remaining bytes, also when offset + n  *)
(* wraps around; a call that succeeds touches only bytes of                *)
(* [offset, offset + n), all of them inside the span.                      *)
(***************************************************************************)
C8_UnderrunExactly ==
    /\ mOffset <= Len(mData)
    /\ call.op \in {"ReadString", "ReadBytes", "PeekBytes", "Skip"} =>
          /\ (call.result = "underrun")
                <=> WordGreater(call.length, SizeT(Remaining(call.before, Len(mData))))
          /\ call.result = "ok" =>
                /\ WordLeq(call.count, call.length)
                /\ WordLeq(call.count, SizeT(Remaining(call.from, Len(mData))))

(***************************************************************************)
(* DBPF archive reader (src/src/DBPFReader.cpp).  uint32_t values are      *)
(* words of 2 limbs; an IndexEntry* is the position of the entry in        *)
(* mIndex; a std::optional is a sequence of no or one element.             *)
(***************************************************************************)
U32(x) == ToWord(x, 2)

\* 'D' | 'B' << 8 | 'P' << 16 | 'F' << 24
kMagicDBPF == <<68 + 66 * 256, 80 + 70 * 256>>

kHeaderSize == 96

kSupportedIndexType == U32(7)

\* Size in bytes of an index record and of a directory record.
kIndexRecordSize == 20

kRecordSize == 16

Tgi(type, group, instance) == [type |-> type, group |-> group, instance |-> instance]

\* {0xE86B1EEF, 0xE86B1EEF, 0x286B1F03}
kDirectoryTgi == Tgi(<<7919, 59499>>, <<7919, 59499>>, <<7939, 10347>>)

\* The uint32_t at data + at, little-endian.
ReadUInt32LE(data, at) ==
    <<data[at + 1] + 256 * data[at + 2], data[at + 3] + 256 * data[at + 4]>>

\* A default-constructed Header, IndexEntry list and MappedFile.
Header0 ==
    [majorVersion |-> U32(0), minorVersion |-> U32(0),
     dateCreated |-> U32(0), dateModified |-> U32(0),
     indexType |-> U32(0), indexEntryCount |-> U32(0),
     indexOffsetLocation |-> U32(0), indexSize |-> U32(0),
     holeEntryCount |-> U32(0), holeOffsetLocation |-> U32(0),
     holeSize |-> U32(0)]

MappedClosed == [mIsOpen |-> FALSE, mFileSize |-> 0]

\* MappedFile::Open: the size of the file is probed and kept.
MappedOpen(content) == [mIsOpen |-> TRUE, mFileSize |-> Len(content)]

Reader0 ==
    [mFileBuffer |-> <<>>, mMappedFile |-> MappedClosed,
     mDataSource |-> "kNone", mHeader |-> Header0, mIndex |-> <<>>,
     mTGIIndex |-> <<>>, mTypeIndex |-> {}, mGroupIndex |-> {},
     mInstanceIndex |-> {}]

\* mIndex.clear() and the clear() of the four lookup tables.
ClearIndex(r) ==
    [r EXCEPT !.mIndex = <<>>, !.mTGIIndex = <<>>, !.mTypeIndex = {},
              !.mGroupIndex = {}, !.mInstanceIndex = {}]

\* A span the reader hands out: whether it could, and the bytes.
NoSpan == [ok |-> FALSE, span |-> <<>>]

\* MapRange(offset, length) on the open file whose bytes are `content`.
MapRange(mapped, content, offset, length) ==
    IF ~mapped.mIsOpen THEN NoSpan
    ELSE IF WordGreater(offset, SizeT(mapped.mFileSize)) THEN NoSpan
    ELSE IF WordGreater(length, WordSub(SizeT(mapped.mFileSize), offset)) THEN NoSpan
    ELSE [ok |-> TRUE, span |-> Slice(content, ToNat(offset), ToNat(length))]

\* start > size || start + length > size, in size_t.
EntryOutOfRange(start, length, size) ==
    \/ WordGreater(start, SizeT(size))
    \/ WordGreater(WordAdd(start, length), SizeT(size))

\* LoadEntryData: the raw bytes of an entry, from the buffer or the file.
LoadEntryData(r, content, entry) ==
    LET start == Widen(entry.offset, 4)
        length == Widen(entry.size, 4)
    IN  IF r.mDataSource = "kBuffer"
        THEN IF r.mFileBuffer = <<>> \/ EntryOutOfRange(start, length, Len(r.mFileBuffer))
             THEN NoSpan
             ELSE [ok |-> TRUE,
                   span |-> Slice(r.mFileBuffer, ToNat(start), ToNat(length))]
        ELSE IF r.mDataSource = "kMappedFile"
        THEN MapRange(r.mMappedFile, content, start, length)
        ELSE NoSpan

\* mHeader.majorVersion != 1 || mHeader.minorVersion != 0
VersionUnsupported(header) ==
    header.majorVersion # U32(1) \/ header.minorVersion # U32(0)

\* ParseHeader: whether it accepts the buffer, and mHeader afterwards.
ParseHeader(header, buffer) ==
    IF Len(buffer) < kHeaderSize THEN [ok |-> FALSE, header |-> header]
    ELSE IF ReadUInt32LE(buffer, 0) # kMagicDBPF THEN [ok |-> FALSE, header |-> header]
    ELSE LET parsed ==
                 [majorVersion |-> ReadUInt32LE(buffer, 4),
                  minorVersion |-> ReadUInt32LE(buffer, 8),
                  dateCreated |-> ReadUInt32LE(buffer, 24),
                  dateModified |-> ReadUInt32LE(buffer, 28),
                  indexType |-> ReadUInt32LE(buffer, 32),
                  indexEntryCount |-> ReadUInt32LE(buffer, 36),
                  indexOffsetLocation |-> ReadUInt32LE(buffer, 40),
                  indexSize |-> ReadUInt32LE(buffer, 44),
                  holeEntryCount |-> ReadUInt32LE(buffer, 48),
                  holeOffsetLocation |-> ReadUInt32LE(buffer, 52),
                  holeSize |-> ReadUInt32LE(buffer, 56)]
         IN  [ok |-> ~VersionUnsupported(parsed)
                     /\ parsed.indexType = kSupportedIndexType,
              header |-> parsed]

\* The index record at ptr.
ReadIndexEntry(buffer, ptr) ==
    [tgi |-> Tgi(ReadUInt32LE(buffer, ptr), ReadUInt32LE(buffer, ptr + 4),
                 ReadUInt32LE(buffer, ptr + 8)),
     offset |-> ReadUInt32LE(buffer, ptr + 12),
     size |-> ReadUInt32LE(buffer, ptr + 16),
     decompressedSize |-> <<>>]

\* buffer.size() < mHeader.indexEntryCount * 20, the product in uint32_t.
IndexTooSmall(size, count) ==
    WordLess(SizeT(size), Widen(WordMul(count, kIndexRecordSize), 4))

RecordOverruns_Unchecked(ptr, end) == FALSE

\* ptr + 20 > end
RecordOverruns(ptr, end) == ptr + kIndexRecordSize > end

\* The loop of ParseIndexSpan from record i on.  A record read that leaves
\* the span is undefined behaviour; the guard of the loop keeps it out of
\* reach.
RECURSIVE ParseRecords(_, _, _, _)
ParseRecords(buffer, count, i, parsed) ==
    IF ~WordLess(U32(i), count)
    THEN [ok |-> TRUE, undefined |-> FALSE, parsed |-> parsed]
    ELSE IF RecordOverruns(kIndexRecordSize * i, Len(buffer))
    THEN [ok |-> FALSE, undefined |-> FALSE, parsed |-> parsed]
    ELSE IF kIndexRecordSize * i + kIndexRecordSize > Len(buffer)
    THEN [ok |-> FALSE, undefined |-> TRUE, parsed |-> parsed]
    ELSE ParseRecords(buffer, count, i + 1,
                      Append(parsed, ReadIndexEntry(buffer, kIndexRecordSize * i)))

\* unordered_map::emplace keeps the element that is already there: the
\* first record of a key.
KeptPosition(positions) == CHOOSE p \in positions : \A q \in positions : p <= q

\* The four lookup tables built from mIndex.  A multimap is the set of its
\* (key, entry) pairs: the order of equal keys in an unordered_multimap is
\* unspecified.
BuildLookup(r, index) ==
    [r EXCEPT
       !.mIndex = index,
       !.mTGIIndex =
           [k \in {index[p].tgi : p \in DOMAIN index} |->
               KeptPosition({p \in DOMAIN index : index[p].tgi = k})],
       !.mTypeIndex = {<<index[p].tgi.type, p>> : p \in DOMAIN index},
       !.mGroupIndex = {<<index[p].tgi.group, p>> : p \in DOMAIN index},
       !.mInstanceIndex = {<<index[p].tgi.instance, p>> : p \in DOMAIN index}]

\* ParseIndexSpan on the bytes of the index table.
ParseIndexSpan(r, buffer) ==
    IF IndexTooSmall(Len(buffer), r.mHeader.indexEntryCount)
    THEN [ok |-> FALSE, undefined |-> FALSE, reader |-> r]
    ELSE LET p == ParseRecords(buffer, r.mHeader.indexEntryCount, 0, <<>>)
         IN  IF p.ok
             THEN [ok |-> TRUE, undefined |-> FALSE, reader |-> BuildLookup(r, p.parsed)]
             ELSE [ok |-> FALSE, undefined |-> p.undefined, reader |-> r]

\* indexOffset + mHeader.indexSize > buffer.size(), in size_t.
IndexOutside(header, size) ==
    WordGreater(WordAdd(Widen(header.indexOffsetLocation, 4),
                        Widen(header.indexSize, 4)),
                SizeT(size))

ParseIndex(r, buffer) ==
    IF IndexOutside(r.mHeader, Len(buffer))
    THEN [ok |-> FALSE, undefined |-> FALSE, reader |-> r]
    ELSE ParseIndexSpan(r, Slice(buffer, ToNat(r.mHeader.indexOffsetLocation),
                                 ToNat(r.mHeader.indexSize)))

Propagate_KeepFirst(entry, decompressed) ==
    IF entry.decompressedSize = <<>>
    THEN [entry EXCEPT !.decompressedSize = <<decompressed>>]
    ELSE entry

\* it->second->decompressedSize = decompressed
Propagate(entry, decompressed) ==
    [entry EXCEPT !.decompressedSize = <<decompressed>>]

\* The loop of ApplyDirectoryMetadata over the 16-byte records from `ptr`.
RECURSIVE ApplyRecords(_, _, _, _)
ApplyRecords(index, tgiIndex, span, ptr) ==
    IF Len(span) - ptr < kRecordSize THEN index
    ELSE LET tgi == Tgi(ReadUInt32LE(span, ptr), ReadUInt32LE(span, ptr + 4),
                        ReadUInt32LE(span, ptr + 8))
             decompressed == ReadUInt32LE(span, ptr + 12)
         IN  ApplyRecords(
                 IF tgi \in DOMAIN tgiIndex
                 THEN [index EXCEPT ![tgiIndex[tgi]] = Propagate(@, decompressed)]
                 ELSE index,
                 tgiIndex, span, ptr + kRecordSize)

ApplyDirectoryMetadata(r, content) ==
    IF kDirectoryTgi \notin DOMAIN r.mTGIIndex
    THEN [ok |-> TRUE, reader |-> r]
    ELSE LET directoryData == LoadEntryData(r, content, r.mIndex[r.mTGIIndex[kDirectoryTgi]])
         IN  IF ~directoryData.ok THEN [ok |-> FALSE, reader |-> r]
             ELSE [ok |-> TRUE,
                   reader |-> [r EXCEPT !.mIndex =
                                  ApplyRecords(r.mIndex, r.mTGIIndex, directoryData.span, 0)]]

\* ParseBuffer on the reader whose mFileBuffer has been assigned.
ParseBuffer(r0, buffer) ==
    LET r == ClearIndex(r0)
    IN  IF Len(buffer) < kHeaderSize THEN [ok |-> FALSE, undefined |-> FALSE, reader |-> r]
        ELSE LET h == ParseHeader(r.mHeader, Slice(buffer, 0, kHeaderSize))
                 rh == [r EXCEPT !.mHeader = h.header]
             IN  IF ~h.ok THEN [ok |-> FALSE, undefined |-> FALSE, reader |-> rh]
                 ELSE LET x == ParseIndex(rh, buffer)
                      IN  IF ~x.ok
                          THEN [ok |-> FALSE, undefined |-> x.undefined,
                                reader |-> [x.reader EXCEPT !.mIndex = <<>>]]
                          ELSE LET a == ApplyDirectoryMetadata(x.reader, buffer)
                               IN  [ok |-> a.ok, undefined |-> FALSE, reader |-> a.reader]

\* ParseMappedFile on the reader whose file has been opened.
ParseMappedFile(r0, content) ==
    LET r == ClearIndex(r0)
        headerRange == MapRange(r.mMappedFile, content, SizeT(0), SizeT(kHeaderSize))
    IN  IF ~headerRange.ok THEN [ok |-> FALSE, undefined |-> FALSE, reader |-> r]
        ELSE LET h == ParseHeader(r.mHeader, headerRange.span)
                 rh == [r EXCEPT !.mHeader = h.header]
             IN  IF ~h.ok THEN [ok |-> FALSE, undefined |-> FALSE, reader |-> rh]
                 ELSE LET indexRange ==
                              MapRange(rh.mMappedFile, content,
                                       Widen(rh.mHeader.indexOffsetLocation, 4),
                                       Widen(rh.mHeader.indexSize, 4))
                      IN  IF ~indexRange.ok
                          THEN [ok |-> FALSE, undefined |-> FALSE, reader |-> rh]
                          ELSE LET x == ParseIndexSpan(rh, indexRange.span)
                               IN  IF ~x.ok
                                   THEN [ok |-> FALSE, undefined |-> x.undefined,
                                         reader |-> x.reader]
                                   ELSE LET a == ApplyDirectoryMetadata(x.reader, content)
                                        IN  [ok |-> a.ok, undefined |-> FALSE,
                                             reader |-> a.reader]

\* What IsChunkHeader reports: whether the data starts with a chunk header,
\* chunkHeaderSize and chunkBodySize.
NoChunk == [ok |-> FALSE, chunkHeaderSize |-> 0, chunkBodySize |-> U32(0)]

\* chunkHeaderSize + body > size, the sum in uint32_t.
BodyOverruns(chunkHeaderSize, body, size) ==
    WordGreater(Widen(WordAdd(U32(chunkHeaderSize), body), 4), SizeT(size))

\* IsChunkHeader taking the second field, the uncompressed size, for the
\* size of the chunk body.
IsChunkHeader_UncompressedSize(data) ==
    IF Len(data) < 9 THEN NoChunk
    ELSE LET size == Len(data)
             chunkSize == ReadUInt32LE(data, 4)
             flagOffset == IF data[8 + 1] \notin {16, 17} /\ size >= 11 THEN 10 ELSE 8
             code == data[flagOffset + 1]
         IN  IF /\ code = 16
                /\ chunkSize # U32(0)
                /\ WordLeq(WordAdd(SizeT(flagOffset + 1), Widen(chunkSize, 4)), SizeT(size))
             THEN [ok |-> TRUE, chunkHeaderSize |-> flagOffset + 1,
                   chunkBodySize |-> chunkSize]
             ELSE IF code = 17 /\ size >= flagOffset + 5
             THEN LET body == ReadUInt32LE(data, flagOffset + 1)
                  IN  IF body = U32(0) \/ BodyOverruns(flagOffset + 5, body, size)
                      THEN NoChunk
                      ELSE [ok |-> TRUE, chunkHeaderSize |-> flagOffset + 5,
                            chunkBodySize |-> body]
             ELSE NoChunk

IsChunkHeader(data) ==
    IF Len(data) < 9 THEN NoChunk
    ELSE LET size == Len(data)
             chunkSize == ReadUInt32LE(data, 0)
             flagOffset == IF data[8 + 1] \notin {16, 17} /\ size >= 11 THEN 10 ELSE 8
             code == data[flagOffset + 1]
         IN  IF /\ code = 16
                /\ chunkSize # U32(0)
                /\ WordLeq(WordAdd(SizeT(flagOffset + 1), Widen(chunkSize, 4)), SizeT(size))
             THEN [ok |-> TRUE, chunkHeaderSize |-> flagOffset + 1,
                   chunkBodySize |-> chunkSize]
             ELSE IF code = 17 /\ size >= flagOffset + 5
             THEN LET body == ReadUInt32LE(data, flagOffset + 1)
                  IN  IF body = U32(0) \/ BodyOverruns(flagOffset + 5, body, size)
                      THEN NoChunk
                      ELSE [ok |-> TRUE, chunkHeaderSize |-> flagOffset + 5,
                            chunkBodySize |-> body]
             ELSE NoChunk

\* The least i with i + 1 < dataSize, i < 16 and the big-endian pair at i
\* equal to the QFS magic; -1 when there is none.
RECURSIVE SignatureAt(_, _)
SignatureAt(data, i) ==
    IF ~(i + 1 < Len(data) /\ i < 16) THEN 0 - 1
    ELSE IF data[i + 1] * 256 + data[i + 2] = MAGIC_COMPRESSED THEN i
    ELSE SignatureAt(data, i + 1)

\* AlignToQfsSignature: the data from the signature on, or unchanged.
AlignToQfsSignature(data) ==
    LET i == SignatureAt(data, 0)
    IN  IF i > 0 THEN Slice(data, i, Len(data) - i) ELSE data

\* What ReadEntryData returns: the optional byte vector, and whether the
\* call left defined behaviour.
NullOpt == [value |-> <<>>, undefined |-> FALSE]

Some(bytes) == [value |-> <<bytes>>, undefined |-> FALSE]

DecompressOrReturn_Raw(data) == Some(data)

\* The tail of ReadEntryData on the bytes left after normalization.
DecompressOrReturn(data) ==
    IF IsQFSCompressed(data)
    THEN LET d == Decompress(data)
         IN  IF d.result # "ok" THEN NullOpt ELSE Some(d.output)
    ELSE Some(data)

\* ReadEntryData(entry).  When IsChunkHeader reports a body that is longer
\* than the bytes behind the header, the vector is built from bytes beyond
\* the entry: undefined behaviour.
ReadEntryData(r, content, entry) ==
    LET entryData == LoadEntryData(r, content, entry)
    IN  IF ~entryData.ok THEN NullOpt
        ELSE LET chunk == IsChunkHeader(entryData.span)
             IN  IF ~chunk.ok
                 THEN DecompressOrReturn(AlignToQfsSignature(entryData.span))
                 ELSE IF WordGreater(Widen(chunk.chunkBodySize, 4),
                                     SizeT(Len(entryData.span) - chunk.chunkHeaderSize))
                 THEN [value |-> <<>>, undefined |-> TRUE]
                 ELSE DecompressOrReturn(AlignToQfsSignature(
                          Slice(entryData.span, chunk.chunkHeaderSize,
                                ToNat(chunk.chunkBodySize))))

\* FindEntry: the position mTGIIndex holds for the key, 0 for nullptr.
FindEntry(r, tgi) ==
    IF tgi \notin DOMAIN r.mTGIIndex THEN 0 ELSE r.mTGIIndex[tgi]

\* ReadEntryData(tgi).
ReadEntryDataTgi(r, content, tgi) ==
    IF FindEntry(r, tgi) = 0 THEN NullOpt
    ELSE ReadEntryData(r, content, r.mIndex[FindEntry(r, tgi)])

\* A TgiMask: each field an optional uint32_t.
Matches(mask, t) ==
    /\ mask.type # <<>> => mask.type[1] = t.type
    /\ mask.group # <<>> => mask.group[1] = t.group
    /\ mask.instance # <<>> => mask.instance[1] = t.instance

\* The entries of one bucket of a multimap that the mask matches.
EqualRange(table, key, index, mask) ==
    {pair[2] : pair \in {q \in table : q[1] = key /\ Matches(mask, index[q[2]].tgi)}}

\* FindEntries: the entries returned, as the set of their positions.
FindEntries(r, mask) ==
    IF mask.type # <<>>
    THEN EqualRange(r.mTypeIndex, mask.type[1], r.mIndex, mask)
    ELSE IF mask.group # <<>>
    THEN EqualRange(r.mGroupIndex, mask.group[1], r.mIndex, mask)
    ELSE IF mask.instance # <<>>
    THEN EqualRange(r.mInstanceIndex, mask.instance[1], r.mIndex, mask)
    ELSE {p \in DOMAIN r.mIndex : Matches(mask, r.mIndex[p].tgi)}

(***************************************************************************)
(* Archives the reader is run on, built the way the tests build theirs     *)
(* (src/tests/tests.cpp, BuildDbpf): header, entry data from 0x60, index.  *)
(***************************************************************************)
\* Bounds: the number of index records and of directory records.
MaxEntries == 2

MaxDirRecords == 2

\* The bytes of a uint32_t, little-endian.
UInt32Bytes(w) == <<w[1] % 256, w[1] \div 256, w[2] % 256, w[2] \div 256>>

Zeros(n) == [i \in 1..n |-> 0]

HeaderBytes(magic, major, minor, indexType, count, indexOffset, indexSize) ==
    magic \o UInt32Bytes(major) \o UInt32Bytes(minor) \o Zeros(20)
    \o UInt32Bytes(indexType) \o UInt32Bytes(count)
    \o UInt32Bytes(indexOffset) \o UInt32Bytes(indexSize) \o Zeros(48)

TgiBytes(tgi) ==
    UInt32Bytes(tgi.type) \o UInt32Bytes(tgi.group) \o UInt32Bytes(tgi.instance)

IndexRecordBytes(e) == TgiBytes(e.tgi) \o UInt32Bytes(e.offset) \o UInt32Bytes(e.size)

DirectoryRecordBytes(d) == TgiBytes(d.tgi) \o UInt32Bytes(d.n)

\* An archive with a well-formed header: the data region, then one index
\* record per element of `entries`.
BuildDbpf(data, entries) ==
    HeaderBytes(<<68, 66, 80, 70>>, U32(1), U32(0), U32(7), U32(Len(entries)),
                U32(kHeaderSize + Len(data)), U32(kIndexRecordSize * Len(entries)))
    \o data \o Concat([i \in DOMAIN entries |-> IndexRecordBytes(entries[i])])

\* Keys: two that differ in the instance only, one apart, and the
\* directory's.
K1 == Tgi(U32(1), U32(2), U32(3))

K2 == Tgi(U32(1), U32(2), U32(4))

K3 == Tgi(U32(5), U32(6), U32(3))

QueryKeys == {K1, K2, K3, kDirectoryTgi}

\* Masks: the full mask of every key, and masks with fields left open.
FullMask(k) == [type |-> <<k.type>>, group |-> <<k.group>>, instance |-> <<k.instance>>]

QueryMasks ==
    {FullMask(k) : k \in QueryKeys}
    \cup { [type |-> <<U32(1)>>, group |-> <<>>, instance |-> <<>>],
           [type |-> <<>>, group |-> <<U32(2)>>, instance |-> <<U32(3)>>],
           [type |-> <<>>, group |-> <<>>, instance |-> <<U32(4)>>],
           [type |-> <<>>, group |-> <<>>, instance |-> <<>>] }

\* The record of the last load (size is the size it was given: of the
\* buffer, or of the file, 0 when there is none) and of the last query
\* since.
Loaded(op, size, result, undefined) ==
    [op |-> op, size |-> size, result |-> result, undefined |-> undefined]

Ret(op, arg, entry, matches, out) ==
    [op |-> op, arg |-> arg, entry |-> entry, matches |-> matches, out |-> out]

\* A reader just constructed, nothing loaded and nothing asked.
DbpfIdle ==
    /\ disk = <<>>
    /\ reader = Reader0
    /\ loaded = Loaded("none", 0, FALSE, FALSE)
    /\ ret = Ret("none", 0, 0, {}, NullOpt)

\* The archive of the reader's first test: one entry "TEST" at 0x60.
BaseData == <<84, 69, 83, 84>>

BaseEntry == [tgi |-> K1, offset |-> U32(kHeaderSize), size |-> U32(4)]

\* A buffer whose magic is spoiled.
Damaged(content) ==
    [i \in 1..Len(content) |-> IF i = 1 THEN (content[i] + 1) % 256 ELSE content[i]]

\* The archives on which a reader that has loaded once loads again: the
\* archive of the first test, whole and cut short.
ReloadedArchives ==
    { SubSeq(BuildDbpf(BaseData, <<BaseEntry>>), 1, n) : n \in {0, 95, 100, 120} }
    \cup { BuildDbpf(<<1, 2, 3, 4>>, <<BaseEntry, [BaseEntry EXCEPT !.tgi = K2]>>) }

\* The buffers LoadBuffer is given: the bytes of `disk` by the first load,
\* and by a later one these, their first 0 bytes, or a spoiled copy.
LoadBufferInputs ==
    IF loaded.op = "none" THEN {disk}
    ELSE IF disk \in ReloadedArchives THEN {disk, <<>>, Damaged(disk)}
    ELSE {}

\* LoadBuffer(data, size).
ReaderLoadBuffer ==
    \E data \in LoadBufferInputs :
        /\ ret' = Ret("none", 0, 0, {}, NullOpt)
        /\ UNCHANGED <<disk, notDbpfVars>>
        /\ IF Len(data) < kHeaderSize
           THEN /\ loaded' = Loaded("LoadBuffer", Len(data), FALSE, FALSE)
                /\ UNCHANGED reader
           ELSE LET p == ParseBuffer([reader EXCEPT !.mMappedFile = MappedClosed,
                                                    !.mFileBuffer = data,
                                                    !.mDataSource = "kBuffer"], data)
                IN  /\ loaded' = Loaded("LoadBuffer", Len(data), p.ok, p.undefined)
                    /\ reader' = IF p.ok THEN p.reader
                                 ELSE [p.reader EXCEPT !.mFileBuffer = <<>>,
                                                       !.mDataSource = "kNone"]

\* LoadFile(path) on a path that holds the bytes of `disk`, or on one that
\* does not exist.
ReaderLoadFile ==
    \E exists \in BOOLEAN :
        /\ loaded.op = "none" \/ disk \in ReloadedArchives
        /\ ret' = Ret("none", 0, 0, {}, NullOpt)
        /\ UNCHANGED <<disk, notDbpfVars>>
        /\ LET r0 == [reader EXCEPT !.mFileBuffer = <<>>,
                                    !.mMappedFile = MappedClosed,
                                    !.mDataSource = "kNone"]
           IN  IF ~exists
               THEN /\ loaded' = Loaded("LoadFile", 0, FALSE, FALSE)
                    /\ reader' = r0
               ELSE LET p == ParseMappedFile([r0 EXCEPT !.mMappedFile = MappedOpen(disk),
                                                        !.mDataSource = "kMappedFile"],
                                             disk)
                    IN  /\ loaded' = Loaded("LoadFile", Len(disk), p.ok, p.undefined)
                        /\ reader' = IF p.ok THEN p.reader
                                     ELSE [p.reader EXCEPT !.mMappedFile = MappedClosed,
                                                           !.mDataSource = "kNone"]

ReaderFindEntry ==
    \E tgi \in QueryKeys :
        /\ loaded.result
        /\ ret' = Ret("FindEntry", tgi, FindEntry(reader, tgi), {}, NullOpt)
        /\ UNCHANGED <<disk, reader, loaded, notDbpfVars>>

ReaderFindEntries ==
    \E mask \in QueryMasks :
        /\ loaded.result
        /\ ret' = Ret("FindEntries", mask, 0, FindEntries(reader, mask), NullOpt)
        /\ UNCHANGED <<disk, reader, loaded, notDbpfVars>>

\* ReadEntryData(entry) for an entry of GetIndex(), after a load that
\* returned true or false.
ReaderReadEntryData ==
    \E p \in DOMAIN reader.mIndex :
        /\ loaded.op # "none"
        /\ ret' = Ret("ReadEntryData", p, p, {},
                      ReadEntryData(reader, disk, reader.mIndex[p]))
        /\ UNCHANGED <<disk, reader, loaded, notDbpfVars>>

DbpfNext ==
    \/ ReaderLoadBuffer
    \/ ReaderLoadFile
    \/ ReaderFindEntry
    \/ ReaderFindEntries
    \/ ReaderReadEntryData

\* Archives whose magic, version and index type vary.
HeaderFieldArchives ==
    { HeaderBytes(magic, major, minor, indexType, U32(1), U32(100), U32(20))
      \o BaseData \o IndexRecordBytes(BaseEntry) :
        magic \in {<<68, 66, 80, 70>>, <<68, 66, 80, 88>>},
        major \in {U32(1), U32(2), <<1, 1>>},
        minor \in {U32(0), U32(1)},
        indexType \in {U32(7), U32(0), <<7, 1>>} }

\* Entry counts: small ones, 0xFFFFFFFF, and counts whose product with 20
\* wraps in 32 bits to 4, 24, 0 and 20.
EntryCounts ==
    {U32(0), U32(1), U32(2), <<65535, 65535>>,
     <<52429, 3276>>, <<52430, 3276>>, <<0, 16384>>, <<1, 32768>>}

\* Archives whose index location, index size and entry count vary.
IndexFitArchives ==
    { HeaderBytes(<<68, 66, 80, 70>>, U32(1), U32(0), U32(7), count, indexOffset, indexSize)
      \o BaseData \o IndexRecordBytes(BaseEntry) :
        count \in EntryCounts,
        indexOffset \in {U32(96), U32(100), U32(101), U32(120), U32(121), <<65520, 65535>>},
        indexSize \in {U32(0), U32(4), U32(19), U32(20), U32(24), <<65535, 65535>>} }

\* A well-formed archive cut short.
TruncatedArchives ==
    { SubSeq(BuildDbpf(BaseData, <<BaseEntry>>), 1, n) : n \in {0, 3, 4, 95, 96, 100, 119} }

\* Directory payloads: up to MaxDirRecords records and 4 bytes that do not
\* make a record.
DirectoryRecords ==
    { [tgi |-> K1, n |-> U32(4)], [tgi |-> K1, n |-> U32(9)], [tgi |-> K2, n |-> U32(4)] }

DirectoryPayloads ==
    { Concat([i \in DOMAIN ds |-> DirectoryRecordBytes(ds[i])]) \o <<1, 2, 3, 4>> :
        ds \in UNION { [1..n -> DirectoryRecords] : n \in 0..MaxDirRecords } }

\* Index records over a data region: any key on the whole region, or a
\* data key on a range that leaves the file.
EntriesOver(data) ==
    { [tgi |-> k, offset |-> U32(kHeaderSize), size |-> U32(Len(data))] :
        k \in {K1, K2, kDirectoryTgi} }
    \cup { [tgi |-> k, offset |-> U32(kHeaderSize), size |-> U32(4096)] : k \in {K1, K2} }

\* Archives whose index has up to MaxEntries records, keys repeated or not.
IndexArchives ==
    UNION { { BuildDbpf(data, es) :
                es \in UNION { [1..n -> EntriesOver(data)] : n \in 0..MaxEntries } } :
            data \in DirectoryPayloads }

\* Payloads: QFS streams (the sample of the tests; one with the 8-byte
\* header; one whose literals look like a chunk flag; one whose literals
\* hold the magic; one cut short) ...
SampleQfsPayload == <<16, 251, 0, 0, 4, 224, 83, 67, 52, 33, 252, 0>>

LongHeaderPayload == <<17, 251, 0, 0, 2, 0, 0, 0, 254, 72, 73>>

QfsPayloads ==
    { SampleQfsPayload, LongHeaderPayload,
      <<16, 251, 0, 0, 8, 225, 65, 66, 17, 1, 0, 0, 0, 67, 252>>,
      <<17, 251, 0, 0, 2, 0, 0, 0, 254, 16, 251, 0>>,
      <<16, 251, 0, 0, 4, 224, 83, 67>> }

\* ... the same behind a chunk header, as WrapChunked of the tests builds
\* it, with the size fields and byte 8 varied ...
WrapChunked(data, flag, chunkSize, byte8, body) ==
    UInt32Bytes(chunkSize) \o UInt32Bytes(U32(4)) \o <<byte8, 0, flag>>
    \o (IF flag = 17 THEN UInt32Bytes(body) ELSE <<>>) \o data

ChunkedPayloads ==
    { WrapChunked(data, flag, chunkSize, byte8, body) :
        data \in {SampleQfsPayload, LongHeaderPayload},
        flag \in {16, 17},
        chunkSize \in {U32(11), U32(12), U32(4), U32(0)},
        byte8 \in {0, 16, 17},
        body \in {U32(11), U32(12), U32(0), <<65528, 65535>>} }

\* ... and payloads that are not QFS streams.
PlainPayloads ==
    { <<84, 69, 83, 84>>, <<>>,
      <<17, 251, 0, 0, 0>>, <<17, 251, 0, 0, 1>>,
      <<65, 66, 67, 16, 251>>,
      [i \in 1..15 |-> 65] \o <<16, 251, 0, 0, 1, 253, 90>>,
      <<1, 0, 0, 0, 0, 0, 0, 0, 16, 88>> }

PayloadArchives ==
    { BuildDbpf(data, <<[tgi |-> K1, offset |-> U32(kHeaderSize), size |-> U32(Len(data))]>>) :
        data \in QfsPayloads \cup ChunkedPayloads \cup PlainPayloads }

Archives ==
    HeaderFieldArchives \cup IndexFitArchives \cup TruncatedArchives
    \cup IndexArchives \cup PayloadArchives

(***************************************************************************)
(* Notions the claims about the archive reader are stated in, read off     *)
(* the bytes of the archive.                                               *)
(***************************************************************************)
\* offset + size of index entry p, against the size of the archive.
EntryInside(p) ==
    WordLeq(WordAdd(Widen(reader.mIndex[p].offset, 4), Widen(reader.mIndex[p].size, 4)),
            SizeT(Len(disk)))

\* The payload of index entry p: the bytes of its range.
EntryBytes(p) ==
    Slice(disk, ToNat(reader.mIndex[p].offset), ToNat(reader.mIndex[p].size))

\* The least position of the index that holds the key, 0 when none does.
FirstPosition(k) ==
    IF \E p \in DOMAIN reader.mIndex : reader.mIndex[p].tgi = k
    THEN CHOOSE p \in DOMAIN reader.mIndex :
            /\ reader.mIndex[p].tgi = k
            /\ \A q \in DOMAIN reader.mIndex : reader.mIndex[q].tgi = k => p <= q
    ELSE 0

\* The whole 16-byte records of a directory payload, in order.
DirectoryListing(span) ==
    [j \in 1..(Len(span) \div kRecordSize) |->
        [tgi |-> Tgi(ReadUInt32LE(span, kRecordSize * (j - 1)),
                     ReadUInt32LE(span, kRecordSize * (j - 1) + 4),
                     ReadUInt32LE(span, kRecordSize * (j - 1) + 8)),
         n |-> ReadUInt32LE(span, kRecordSize * (j - 1) + 12)]]

\* A QFS stream: what the detection accepts and the decoder decodes.
IsQfsStream(data) == IsQFSCompressed(data) /\ Decompress(data).result = "ok"

Decoded(data) == Some(Decompress(data).output)

\* The bytes behind a chunk header of h bytes.
ChunkBody(data, h) == Slice(data, h, Len(data) - h)

\* A payload that is a chunk header with flag 0x10 at offset 10 and the
\* size field equal to the length of what follows; one with flag 0x11 and
\* a body length equal to it too.
Wrapped10(data) ==
    /\ Len(data) > 11
    /\ data[11] = 16
    /\ ReadUInt32LE(data, 0) = U32(Len(data) - 11)

Wrapped11(data) ==
    /\ Len(data) > 15
    /\ data[11] = 17
    /\ ReadUInt32LE(data, 0) = U32(Len(data) - 15)
    /\ ReadUInt32LE(data, 11) = U32(Len(data) - 15)

\* No byte pair 0x10 0xFB that starts in the first 16 bytes.
NoMagicInFirst16(data) ==
    \A i \in 0..15 : i + 1 < Len(data) => data[i + 1] * 256 + data[i + 2] # MAGIC_COMPRESSED

(***************************************************************************)
(* C3 as stated: ReadEntryData returns the decompressed bytes of a payload *)
(* that is a QFS stream P, the same bytes when P follows a chunk header    *)
(* (size field = length of P; flag 0x10 at offset 10, or flag 0x11 and a   *)
(* body length = length of P), and the payload itself when it has no chunk *)
(* header, no 0x10FB in its first 16 bytes and is not a QFS stream.        *)
(***************************************************************************)
C3_ReadEntryDataAsStated ==
    (loaded.result /\ ret.op = "ReadEntryData" /\ EntryInside(ret.entry)) =>
        LET data == EntryBytes(ret.entry)
        IN  /\ IsQfsStream(data) => ret.out = Decoded(data)
            /\ (Wrapped10(data) /\ IsQfsStream(ChunkBody(data, 11)))
                   => ret.out = Decoded(ChunkBody(data, 11))
            /\ (Wrapped11(data) /\ IsQfsStream(ChunkBody(data, 15)))
                   => ret.out = Decoded(ChunkBody(data, 15))
            /\ (~IsChunkHeader(data).ok /\ NoMagicInFirst16(data) /\ ~IsQfsStream(data))
                   => ret.out = Some(data)

(***************************************************************************)
(* C3 amended: ReadEntryData returns the decompressed bytes of a payload   *)
(* that is a QFS stream P which IsChunkHeader does not take for a chunk    *)
(* header and which has no 0x10FB pair at offsets 1..15; the same bytes    *)
(* when a QFS stream P with no 0x10FB pair at its offsets 1..15 follows a  *)
(* chunk header as in the claim whose byte 8 is neither 0x10 nor 0x11; and *)
(* the payload itself when it has no chunk header, no 0x10FB pair starting *)
(* at offsets 0..15 and fails the QFS detection.                           *)
(***************************************************************************)
C3_ReadEntryDataNormalized ==
    (loaded.result /\ ret.op = "ReadEntryData" /\ EntryInside(ret.entry)) =>
        LET data == EntryBytes(ret.entry)
        IN  /\ (IsQfsStream(data) /\ ~IsChunkHeader(data).ok /\ SignatureAt(data, 0) <= 0)
                   => ret.out = Decoded(data)
            /\ (/\ Wrapped10(data) /\ data[9] \notin {16, 17}
                /\ IsQfsStream(ChunkBody(data, 11))
                /\ SignatureAt(ChunkBody(data, 11), 0) <= 0)
                   => ret.out = Decoded(ChunkBody(data, 11))
            /\ (/\ Wrapped11(data) /\ data[9] \notin {16, 17}
                /\ IsQfsStream(ChunkBody(data, 15))
                /\ SignatureAt(ChunkBody(data, 15), 0) <= 0)
                   => ret.out = Decoded(ChunkBody(data, 15))
            /\ (/\ ~IsChunkHeader(data).ok
                /\ SignatureAt(data, 0) < 0
                /\ ~IsQFSCompressed(data))
                   => ret.out = Some(data)

\* C3 witness: the sample stream behind an 11-byte chunk header has been
\* read and came back as "SC4!".
C3_Witness ==
    /\ loaded.result
    /\ ret.op = "ReadEntryData"
    /\ EntryInside(ret.entry)
    /\ Wrapped10(EntryBytes(ret.entry))
    /\ EntryBytes(ret.entry)[9] = 0
    /\ ChunkBody(EntryBytes(ret.entry), 11) = SampleQfsPayload
    /\ ret.out = Some(<<83, 67, 52, 33>>)

\* The chunk header of the worked example, and the one WrapChunked of the
\* tests puts before the 12 bytes of the sample stream.
ExampleChunkHeader == <<4, 0, 0, 0, 4, 0, 0, 0, 0, 0, 16>>

SampleChunkHeader == <<12, 0, 0, 0, 4, 0, 0, 0, 0, 0, 16>>

(***************************************************************************)
(* C20 as stated: an entry whose payload is the chunk header               *)
(* 04 00 00 00 04 00 00 00 00 00 10 followed by the 12-byte sample stream  *)
(* is read by ReadEntryData as the 4 bytes "SC4!".                         *)
(***************************************************************************)
C20_ExampleReadsSC4 ==
    (/\ ret.op = "ReadEntryData"
     /\ EntryInside(ret.entry)
     /\ EntryBytes(ret.entry) = ExampleChunkHeader \o SampleQfsPayload)
        => ret.out = Some(<<83, 67, 52, 33>>)

(***************************************************************************)
(* C20 amended: with the size field of the chunk header holding the length *)
(* of the stream, 0C 00 00 00 04 00 00 00 00 00 10, the entry is read as   *)
(* "SC4!"; with the size field 04 of the example ReadEntryData keeps 4     *)
(* bytes behind the header and returns them as they are, 10 FB 00 00.      *)
(***************************************************************************)
C20_SizedChunkReadsSC4 ==
    (loaded.result /\ ret.op = "ReadEntryData" /\ EntryInside(ret.entry)) =>
        /\ EntryBytes(ret.entry) = SampleChunkHeader \o SampleQfsPayload
               => ret.out = Some(<<83, 67, 52, 33>>)
        /\ EntryBytes(ret.entry) = ExampleChunkHeader \o SampleQfsPayload
               => ret.out = Some(<<16, 251, 0, 0>>)

\* C20 witness: the sample stream behind the header that carries its length
\* has been read.
C20_Witness ==
    /\ ret.op = "ReadEntryData"
    /\ EntryInside(ret.entry)
    /\ EntryBytes(ret.entry) = SampleChunkHeader \o SampleQfsPayload
    /\ IsChunkHeader(EntryBytes(ret.entry)).chunkBodySize = U32(12)
    /\ ret.out = Some(<<83, 67, 52, 33>>)

\* The example of C20 has been read.
C20_ExampleReached ==
    ~(/\ ret.op = "ReadEntryData"
      /\ EntryInside(ret.entry)
      /\ EntryBytes(ret.entry) = ExampleChunkHeader \o SampleQfsPayload)

(***************************************************************************)
(* C4: after a successful load, FindEntries with the full mask of a key    *)
(* that occurs in the index returns exactly one entry, the one FindEntry   *)
(* returns for the key, also when the index lists the key more than once.  *)
(***************************************************************************)
C4_FindEntriesUnique ==
    (/\ ret.op = "FindEntries"
     /\ \E p \in DOMAIN reader.mIndex : ret.arg = FullMask(reader.mIndex[p].tgi))
        => /\ Cardinality(ret.matches) = 1
           /\ ret.matches =
                 {FindEntry(reader, Tgi(ret.arg.type[1], ret.arg.group[1], ret.arg.instance[1]))}

C6_EntriesInsideFile ==
    loaded.result => \A p \in DOMAIN reader.mIndex : EntryInside(p)

\* What C7 lists, read off the archive with unbounded arithmetic: wrong
\* magic; or, in an archive that holds a header, a wrong version or index
\* type, or an index table that does not fit.
IndexDoesNotFit(content) ==
    \/ WordGreater(WordAdd(Widen(ReadUInt32LE(content, 40), 4),
                           Widen(ReadUInt32LE(content, 44), 4)),
                   SizeT(Len(content)))
    \/ WordGreater(WordMul(Widen(ReadUInt32LE(content, 36), 4), kIndexRecordSize),
                   Widen(ReadUInt32LE(content, 44), 4))

Malformed(content) ==
    \/ Len(content) < 4
    \/ SubSeq(content, 1, 4) # <<68, 66, 80, 70>>
    \/ /\ Len(content) >= kHeaderSize
       /\ \/ ReadUInt32LE(content, 4) # U32(1)
          \/ ReadUInt32LE(content, 8) # U32(0)
          \/ ReadUInt32LE(content, 32) # U32(7)
          \/ IndexDoesNotFit(content)

ServesNoData ==
    /\ \A p \in DOMAIN reader.mIndex :
            ReadEntryData(reader, disk, reader.mIndex[p]) = NullOpt
    /\ \A k \in QueryKeys : ReadEntryDataTgi(reader, disk, k) = NullOpt
    /\ ret.op = "ReadEntryData" => ret.out = NullOpt

C24_FailedLoadServesNothing ==
    (loaded.op \in {"LoadBuffer", "LoadFile"} /\ ~loaded.result /\ ~loaded.undefined)
        => ServesNoData

\* The same for the loads that fail behind the first check of LoadBuffer:
\* every LoadFile, and every LoadBuffer of at least kHeaderSize bytes.
C24_RejectedArchiveServesNothing ==
    (/\ loaded.op \in {"LoadBuffer", "LoadFile"}
     /\ ~loaded.result /\ ~loaded.undefined
     /\ ~(loaded.op = "LoadBuffer" /\ loaded.size < kHeaderSize))
        => ServesNoData

\* LoadBuffer has returned false for a buffer of 0 bytes and the reader has
\* then handed out the entry "TEST" of the archive loaded before.
C24_StaleEntryServed ==
    /\ loaded.op = "LoadBuffer" /\ loaded.size = 0 /\ ~loaded.result
    /\ ret.op = "ReadEntryData"
    /\ ret.out = Some(BaseData)

\* LoadFile has returned false for a path that does not exist, the index
\* still holds the entries of the archive loaded before, and one of them
\* has been asked for.
C24_RefusedEntryAsked ==
    /\ loaded.op = "LoadFile" /\ loaded.size = 0 /\ ~loaded.result
    /\ reader.mIndex # <<>>
    /\ ret.op = "ReadEntryData"
    /\ ret.out = NullOpt

(***************************************************************************)
(* RUL0: the transformation pipeline of src/src/RUL0.cpp.                  *)
(*                                                                         *)
(* A Grid is a sequence of rows, a row a sequence of glyphs.  A 32-bit     *)
(* flag word is the sequence of its four bytes, lowest first, so that      *)
(* <<W, N, E, S>> is the word with W in bits 0..7 and S in bits 24..31:    *)
(* the shifts of the code move whole bytes.  The preview effect's float    *)
(* coordinates are integers here; the code only negates, swaps and adds    *)
(* small integers to them, all of which are exact on such values.  The     *)
(* effect's rotation is a 32-bit int.                                      *)
(***************************************************************************)
kEmptyLayoutCell == "."

ROT_0 == 0

ROT_90 == 1

ROT_180 == 2

ROT_270 == 3

RotationNONE == 4

OneWayDirNONE == 8

INT_MAX == 2147483647

\* The % of C++ on int: the remainder has the sign of the dividend.
CRem(a, b) ==
    LET m == a % b
    IN  IF a >= 0 \/ m = 0 THEN m ELSE m - b

NormalizeGrid(grid) ==
    IF grid = <<>>
    THEN <<>>
    ELSE LET width == CHOOSE w \in { Len(grid[y]) : y \in 1..Len(grid) } :
                          \A y \in 1..Len(grid) : Len(grid[y]) <= w
         IN  [y \in 1..Len(grid) |->
                [x \in 1..width |->
                    IF x <= Len(grid[y]) THEN grid[y][x] ELSE kEmptyLayoutCell]]

RotateGrid90Clockwise(grid) ==
    LET normalized == NormalizeGrid(grid)
    IN  IF normalized = <<>>
        THEN normalized
        ELSE LET height == Len(normalized)
                 width == Len(normalized[1])
             IN  \* rotated[x][height - 1 - y] = normalized[y][x]
                 [x \in 1..width |->
                    [c \in 1..height |-> normalized[height - c + 1][x]]]

RECURSIVE RotateLoop(_, _, _)
RotateLoop(rotated, i, times) ==
    IF i < times
    THEN RotateLoop(RotateGrid90Clockwise(rotated), i + 1, times)
    ELSE rotated

RotateGrid(grid, times) ==
    RotateLoop(NormalizeGrid(grid), 0, CRem(CRem(times, 4) + 4, 4))

TransposeGrid(grid) ==
    LET normalized == NormalizeGrid(grid)
    IN  IF normalized = <<>>
        THEN normalized
        ELSE LET height == Len(normalized)
                 width == Len(normalized[1])
             IN  [x \in 1..width |-> [y \in 1..height |-> normalized[y][x]]]

TranslateGrid(grid, deltaX, deltaZ) ==
    LET normalized == NormalizeGrid(grid)
    IN  IF normalized = <<>> \/ (deltaX = 0 /\ deltaZ = 0)
        THEN normalized
        ELSE LET height == Len(normalized)
                 width == Len(normalized[1])
             IN  [y \in 1..(height + deltaZ) |->
                    [x \in 1..(width + deltaX) |->
                        IF y > deltaZ /\ x > deltaX
                        THEN normalized[y - deltaZ][x - deltaX]
                        ELSE kEmptyLayoutCell]]

\* As TransposeEdgeFlags, but the four slots move round by one.
TransposeEdgeFlags_Cyclic(flags) == <<flags[2], flags[3], flags[4], flags[1]>>

\* south = byte 3, east = byte 2, north = byte 1, west = byte 0.
TransposeEdgeFlags(flags) ==
    LET south == flags[4]
        east == flags[3]
        north == flags[2]
        west == flags[1]
    IN  <<north, west, south, east>>

TransposeOneWayDir(dir) ==
    CASE dir = 0 -> 2
      [] dir = 1 -> 1
      [] dir = 2 -> 0
      [] dir = 3 -> 7
      [] dir = 4 -> 6
      [] dir = 5 -> 5
      [] dir = 6 -> 4
      [] dir = 7 -> 3
      [] OTHER -> dir

\* The pair <<x, y>> after the call.
RotatePoint(x, y, rotation) ==
    LET r == rotation % 4
    IN  CASE r = 1 -> <<0 - y, x>>
          [] r = 2 -> <<0 - x, 0 - y>>
          [] r = 3 -> <<y, 0 - x>>
          [] OTHER -> <<x, y>>

\* (flags << shiftBits) | (flags >> (32 - shiftBits)) with shiftBits a
\* multiple of 8 in 8..24: byte i of the result is byte i - rotation of the
\* argument.  ApplyRotation, its only caller, never passes rotation 0, for
\* which the right shift by 32 has no defined result.
RotateEdgeFlags(flags, rotation) ==
    LET r == rotation % 4
    IN  CASE r \in 1..3 -> [i \in 1..4 |-> flags[((i - 1 - r) % 4) + 1]]

Transform(copyFrom, rotate, transpose, translate) ==
    [copyFrom |-> copyFrom, rotate |-> rotate, transpose |-> transpose,
     translate |-> translate]

Translation(initialized, x, z) == [initialized |-> initialized, x |-> x, z |-> z]

PreviewEffect(initialized, x, y, rotation, flip, name) ==
    [initialized |-> initialized, x |-> x, y |-> y, rotation |-> rotation,
     flip |-> flip, name |-> name]

NetworkCheck(ruleFlagByte, hexMask) ==
    [ruleFlagByte |-> ruleFlagByte, hexMask |-> hexMask]

CheckType(symbol, networks) == [symbol |-> symbol, networks |-> networks]

\* The piece that puzzlePieces[id] creates.  Of the scalar metadata, costs
\* stands for the members CopyPuzzlePiece copies and placeQueryId for the
\* one it leaves; no transformation touches either kind.
ReplacementIntersection(initialized, rotation, flip) ==
    [initialized |-> initialized, rotation |-> rotation, flip |-> flip]

\* A HandleOffset or a StepOffsets: the flag and the pair of numbers.
Offsets(initialized, first, second) ==
    [initialized |-> initialized, first |-> first, second |-> second]

PuzzlePiece(id) ==
    [id |-> id,
     effect |-> PreviewEffect(FALSE, 0, 0, 0, 0, ""),
     cellLayout |-> <<>>,
     checkTypes |-> <<>>,
     consLayout |-> <<>>,
     autoPathBase |-> -1,
     autoTileBase |-> -1,
     replacementIntersection |-> ReplacementIntersection(FALSE, 0, 0),
     placeQueryId |-> -1,
     costs |-> -1,
     convertQueryId |-> -1,
     autoPlace |-> FALSE,
     handleOffset |-> Offsets(FALSE, 0, 0),
     stepOffsets |-> Offsets(FALSE, 0, 0),
     oneWayDir |-> OneWayDirNONE,
     copyFrom |-> 0,
     rotate |-> RotationNONE,
     translate |-> Translation(FALSE, 0, 0),
     transpose |-> FALSE,
     requestedTransform |-> Transform(0, RotationNONE, FALSE, Translation(FALSE, 0, 0)),
     appliedTransform |-> Transform(0, RotationNONE, FALSE, Translation(FALSE, 0, 0))]

\* As CopyPuzzlePiece, but the destination's PlaceQueryId is overwritten too.
CopyPuzzlePiece_WithQueryId(source, dest) ==
    [dest EXCEPT !.effect = source.effect,
                 !.cellLayout = source.cellLayout,
                 !.checkTypes = source.checkTypes,
                 !.consLayout = source.consLayout,
                 !.autoPathBase = source.autoPathBase,
                 !.autoTileBase = source.autoTileBase,
                 !.replacementIntersection = source.replacementIntersection,
                 !.placeQueryId = source.placeQueryId,
                 !.costs = source.costs,
                 !.convertQueryId = source.convertQueryId,
                 !.autoPlace = source.autoPlace,
                 !.handleOffset = source.handleOffset,
                 !.stepOffsets = source.stepOffsets,
                 !.oneWayDir = source.oneWayDir]

CopyPuzzlePiece(source, dest) ==
    [dest EXCEPT !.effect = source.effect,
                 !.cellLayout = source.cellLayout,
                 !.checkTypes = source.checkTypes,
                 !.consLayout = source.consLayout,
                 !.autoPathBase = source.autoPathBase,
                 !.autoTileBase = source.autoTileBase,
                 !.replacementIntersection = source.replacementIntersection,
                 !.costs = source.costs,
                 !.convertQueryId = source.convertQueryId,
                 !.autoPlace = source.autoPlace,
                 !.handleOffset = source.handleOffset,
                 !.stepOffsets = source.stepOffsets,
                 !.oneWayDir = source.oneWayDir]

\* piece.effect.rotation + times * 90 leaves the range of int.
AngleOverflows(rotation, times) == rotation > INT_MAX - times * 90

\* (piece.effect.rotation + times * 90) % 360.  When the sum overflows the
\* behaviour is undefined: a build either wraps the sum to 32 bits, or
\* folds the expression as if the sum were exact.
RotatedAngle(rotation, times, wraps) ==
    LET add == times * 90
    IN  IF ~AngleOverflows(rotation, times)
        THEN CRem(rotation + add, 360)
        ELSE IF wraps
             THEN CRem((rotation - INT_MAX) + (add - 1) - INT_MAX - 1, 360)
             ELSE CRem(CRem(rotation, 360) + add, 360)

RotateNetworks(checkTypes, times) ==
    [c \in 1..Len(checkTypes) |->
        [checkTypes[c] EXCEPT !.networks =
            [n \in 1..Len(checkTypes[c].networks) |->
                NetworkCheck(
                    RotateEdgeFlags(checkTypes[c].networks[n].ruleFlagByte, times),
                    RotateEdgeFlags(checkTypes[c].networks[n].hexMask, times))]]]

ApplyRotation(piece, rotation, wraps) ==
    IF rotation = RotationNONE \/ rotation = ROT_0
    THEN piece
    ELSE LET times == rotation
             point == RotatePoint(piece.effect.x, piece.effect.y, times)
         IN  [piece EXCEPT
                !.cellLayout = IF @ # <<>> THEN RotateGrid(@, times) ELSE @,
                !.consLayout = IF @ # <<>> THEN RotateGrid(@, times) ELSE @,
                !.effect = IF @.initialized
                           THEN [@ EXCEPT !.x = point[1],
                                          !.y = point[2],
                                          !.rotation = RotatedAngle(@, times, wraps)]
                           ELSE @,
                !.oneWayDir = IF @ # OneWayDirNONE /\ @ < 8
                              THEN (@ + times * 2) % 8
                              ELSE @,
                !.checkTypes = RotateNetworks(@, times),
                !.rotate = RotationNONE]

TransposeNetworks(checkTypes) ==
    [c \in 1..Len(checkTypes) |->
        [checkTypes[c] EXCEPT !.networks =
            [n \in 1..Len(checkTypes[c].networks) |->
                NetworkCheck(
                    TransposeEdgeFlags(checkTypes[c].networks[n].ruleFlagByte),
                    TransposeEdgeFlags(checkTypes[c].networks[n].hexMask))]]]

ApplyTranspose(piece) ==
    IF ~piece.transpose
    THEN piece
    ELSE [piece EXCEPT
            !.cellLayout = IF @ # <<>> THEN TransposeGrid(@) ELSE @,
            !.consLayout = IF @ # <<>> THEN TransposeGrid(@) ELSE @,
            !.effect = IF @.initialized
                       THEN [@ EXCEPT !.x = piece.effect.y,
                                      !.y = piece.effect.x,
                                      !.flip = IF @ = 0 THEN 1 ELSE 0]
                       ELSE @,
            !.oneWayDir = IF @ # OneWayDirNONE THEN TransposeOneWayDir(@) ELSE @,
            !.checkTypes = TransposeNetworks(@),
            !.transpose = FALSE]

ApplyTranslation(piece) ==
    IF ~piece.translate.initialized
    THEN piece
    ELSE [piece EXCEPT
            !.cellLayout = IF @ # <<>>
                           THEN TranslateGrid(@, piece.translate.x, piece.translate.z)
                           ELSE @,
            !.consLayout = IF @ # <<>>
                           THEN TranslateGrid(@, piece.translate.x, piece.translate.z)
                           ELSE @,
            !.effect = IF @.initialized
                       THEN [@ EXCEPT !.x = @ + piece.translate.x,
                                      !.y = @ + piece.translate.z]
                       ELSE @,
            !.translate = [@ EXCEPT !.initialized = FALSE]]

\* One turn of the loop of BuildNavigationIndices, for the piece with this id.
TransformPiece(puzzlePieces, id, wraps) ==
    LET declared == puzzlePieces[id]
        snapshot == [declared EXCEPT !.requestedTransform =
                        Transform(declared.copyFrom, declared.rotate,
                                  declared.transpose, declared.translate)]
        copied ==
            IF snapshot.copyFrom # 0 /\ snapshot.copyFrom \in DOMAIN puzzlePieces
            THEN [CopyPuzzlePiece(IF snapshot.copyFrom = id
                                  THEN snapshot
                                  ELSE puzzlePieces[snapshot.copyFrom],
                                  snapshot)
                    EXCEPT !.id = id]
            ELSE snapshot
        applied == [copied EXCEPT !.appliedTransform = copied.requestedTransform]
    IN  ApplyTranslation(ApplyTranspose(ApplyRotation(applied, applied.rotate, wraps)))

\* piece.effect.rotation overflows in the ApplyRotation of this turn.
TransformOverflows(puzzlePieces, id) ==
    LET declared == puzzlePieces[id]
        source == IF declared.copyFrom # 0 /\ declared.copyFrom \in DOMAIN puzzlePieces
                  THEN puzzlePieces[declared.copyFrom]
                  ELSE declared
    IN  /\ declared.rotate \in ROT_90..ROT_270
        /\ source.effect.initialized
        /\ AngleOverflows(source.effect.rotation, declared.rotate)

\* The piece ids in descending order.
RECURSIVE SortedIds_Descending(_)
SortedIds_Descending(ids) ==
    IF ids = {}
    THEN <<>>
    ELSE LET most == CHOOSE i \in ids : \A j \in ids : i >= j
         IN  <<most>> \o SortedIds_Descending(ids \ {most})

\* std::sort of the piece ids.
RECURSIVE SortedIds(_)
SortedIds(ids) ==
    IF ids = {}
    THEN <<>>
    ELSE LET least == CHOOSE i \in ids : \A j \in ids : i <= j
         IN  <<least>> \o SortedIds(ids \ {least})

\* The Record after the loop over pieceIds, and whether a step of it was
\* undefined.
RECURSIVE BuildLoop(_, _, _, _)
BuildLoop(puzzlePieces, pieceIds, undefined, wraps) ==
    IF pieceIds = <<>>
    THEN [puzzlePieces |-> puzzlePieces, undefined |-> undefined]
    ELSE LET id == Head(pieceIds)
         IN  BuildLoop([puzzlePieces EXCEPT ![id] = TransformPiece(puzzlePieces, id, wraps)],
                       Tail(pieceIds),
                       undefined \/ TransformOverflows(puzzlePieces, id),
                       wraps)

BuildNavigationIndices(data, wraps) ==
    LET built == BuildLoop(data.puzzlePieces, SortedIds(DOMAIN data.puzzlePieces),
                           FALSE, wraps)
    IN  [data |-> [data EXCEPT !.puzzlePieces = built.puzzlePieces],
         undefined |-> built.undefined]

(***************************************************************************)
(* RUL0: the parser.  A line of the INI text reaches IniHandler as its     *)
(* section, key and value; the section is 0 for the Ordering section and   *)
(* the preamble, the piece id for HighwayIntersectionInfo_<id>, and -1 for *)
(* any other section.  A value is given as what the parse helpers make of  *)
(* its text.                                                               *)
(***************************************************************************)
MaxLines == 4

MaxTurns == 4

MaxTurnedLines == 2

MaxFlips == 2

Line(section, key, value) == [section |-> section, key |-> key, value |-> value]

Record0 == [orderings |-> <<>>, puzzlePieces |-> <<>>, currentPiece |-> 0]

Handled(data, ok) == [data |-> data, ok |-> ok]

\* As OrderingHandler, but AddTypes goes to the first ordering.
OrderingHandler_FirstOrdering(data, key, value) ==
    CASE key = "RotationRing" ->
            Handled([data EXCEPT !.orderings =
                        Append(@, [rotationRing |-> value, addTypes |-> <<>>])], TRUE)
      [] key = "AddTypes" ->
            IF data.orderings = <<>>
            THEN Handled(data, FALSE)
            ELSE Handled([data EXCEPT !.orderings[1].addTypes = Append(@, value)],
                         TRUE)
      [] OTHER -> Handled(data, FALSE)

\* The branch of IniHandler for the Ordering section and the preamble.
OrderingHandler(data, key, value) ==
    CASE key = "RotationRing" ->
            Handled([data EXCEPT !.orderings =
                        Append(@, [rotationRing |-> value, addTypes |-> <<>>])], TRUE)
      [] key = "AddTypes" ->
            IF data.orderings = <<>>
            THEN Handled(data, FALSE)
            ELSE Handled([data EXCEPT !.orderings[Len(data.orderings)].addTypes =
                            Append(@, value)], TRUE)
      [] OTHER -> Handled(data, FALSE)

\* The branch of IniHandler for one key of a piece; ok is its return value.
PieceHandler(piece, key, value) ==
    CASE key = "Piece" ->
            Handled(IF value.ok
                    THEN [piece EXCEPT !.effect =
                            PreviewEffect(TRUE, value.x, value.y, value.rotation,
                                          value.flip, @.name)]
                    ELSE piece, TRUE)
      [] key = "PreviewEffect" ->
            Handled([piece EXCEPT !.effect.name = value], TRUE)
      [] key = "CellLayout" ->
            Handled([piece EXCEPT !.cellLayout = Append(@, value)], TRUE)
      [] key = "CheckType" ->
            Handled([piece EXCEPT !.checkTypes = Append(@, value)], TRUE)
      [] key = "ConsLayout" ->
            Handled([piece EXCEPT !.consLayout = Append(@, value)], TRUE)
      [] key = "AutoPathBase" ->
            Handled([piece EXCEPT !.autoPathBase = value], TRUE)
      [] key = "AutoTileBase" ->
            Handled([piece EXCEPT !.autoTileBase = value], TRUE)
      [] key = "ReplacementIntersection" ->
            IF ~value.ok \/ value.x < ROT_0 \/ value.x > ROT_270
            THEN Handled(piece, FALSE)
            ELSE Handled([piece EXCEPT !.replacementIntersection =
                            ReplacementIntersection(TRUE, value.x, value.z)], TRUE)
      [] key = "PlaceQueryId" ->
            Handled([piece EXCEPT !.placeQueryId = value], TRUE)
      [] key = "Costs" ->
            Handled([piece EXCEPT !.costs = value], TRUE)
      [] key = "ConvertQueryId" ->
            Handled([piece EXCEPT !.convertQueryId = value], TRUE)
      [] key = "AutoPlace" ->
            Handled([piece EXCEPT !.autoPlace = (value # 0)], TRUE)
      [] key = "HandleOffset" ->
            Handled(IF value.ok
                    THEN [piece EXCEPT !.handleOffset = Offsets(TRUE, value.x, value.z)]
                    ELSE piece, TRUE)
      [] key = "StepOffsets" ->
            Handled(IF value.ok
                    THEN [piece EXCEPT !.stepOffsets = Offsets(TRUE, value.x, value.z)]
                    ELSE piece, TRUE)
      [] key = "OneWayDir" ->
            IF value < 0 \/ value > 7
            THEN Handled(piece, FALSE)
            ELSE Handled([piece EXCEPT !.oneWayDir = value], TRUE)
      [] key = "CopyFrom" ->
            Handled([piece EXCEPT !.copyFrom = value,
                                  !.requestedTransform.copyFrom = value], TRUE)
      [] key = "Rotate" ->
            IF value < ROT_0 \/ value > ROT_270
            THEN Handled(piece, FALSE)
            ELSE Handled([piece EXCEPT !.rotate = value,
                                       !.requestedTransform.rotate = value], TRUE)
      [] key = "Transpose" ->
            Handled([piece EXCEPT !.transpose = (value # 0),
                                  !.requestedTransform.transpose = (value # 0)], TRUE)
      [] key = "Translate" ->
            Handled(IF value.ok
                    THEN [piece EXCEPT
                            !.translate = Translation(TRUE, value.x, value.z),
                            !.requestedTransform.translate =
                                Translation(TRUE, value.x, value.z)]
                    ELSE piece, TRUE)
      [] OTHER -> Handled(piece, FALSE)

\* puzzlePieces[id], created when the map has no such piece.
PieceAt(data, id) ==
    IF id \in DOMAIN data.puzzlePieces THEN data.puzzlePieces[id] ELSE PuzzlePiece(id)

WithPiece(data, id, piece) ==
    [data EXCEPT !.puzzlePieces =
                    [i \in DOMAIN data.puzzlePieces \cup {id} |->
                        IF i = id THEN piece ELSE data.puzzlePieces[i]],
                 !.currentPiece = id]

IniHandler(data, line) ==
    IF line.section = 0
    THEN OrderingHandler(data, line.key, line.value)
    ELSE IF line.section > 0
         THEN LET id == line.section
                  handled == PieceHandler(PieceAt(data, id), line.key, line.value)
              IN  Handled(WithPiece(data, id, handled.data), handled.ok)
         ELSE Handled(data, TRUE)

PieceIds == {1, 2}

PieceValue(x, y, rotation, flip) ==
    [ok |-> TRUE, x |-> x, y |-> y, rotation |-> rotation, flip |-> flip]

PairValue(x, z) == [ok |-> TRUE, x |-> x, z |-> z]

BadValue == [ok |-> FALSE]

\* The keys tried in a section, and the values tried for a key.  Piece 1
\* is given content and transforms, piece 2 mostly transforms, so that it
\* can be the piece that copies.  AutoTileBase, ConvertQueryId and
\* StepOffsets are handled as AutoPathBase and HandleOffset are, and are
\* left out of the keys tried.
LineKeys(section) ==
    IF section = 1
    THEN {"Piece", "PreviewEffect", "CellLayout", "CheckType", "ConsLayout",
          "AutoPathBase", "ReplacementIntersection", "PlaceQueryId", "Costs",
          "AutoPlace", "HandleOffset", "OneWayDir", "CopyFrom", "Rotate",
          "Transpose", "Translate", "Bogus"}
    ELSE IF section > 1
         THEN {"CellLayout", "PlaceQueryId", "CopyFrom", "Rotate", "Transpose",
               "Translate", "Bogus"}
         ELSE IF section = 0
              THEN {"RotationRing", "AddTypes", "Bogus"}
              ELSE {"Bogus"}

LineValues(section, key) ==
    CASE key = "Piece" ->
            {PieceValue(1, 2, -100, 2), PieceValue(0, -3, INT_MAX, 0)}
      [] key = "PreviewEffect" -> {"fx"}
      [] key = "CellLayout" ->
            IF section = 1
            THEN {<<>>, <<"A", "B">>, <<"C", "D">>}
            ELSE {<<"A", "B">>}
      [] key = "CheckType" ->
            {CheckType("A", <<NetworkCheck(<<1, 2, 3, 4>>, <<255, 0, 255, 255>>)>>)}
      [] key = "ConsLayout" -> {<<"X", "Y">>}
      [] key = "AutoPathBase" -> {8}
      [] key = "AutoTileBase" -> {9}
      [] key = "ReplacementIntersection" ->
            {PairValue(1, 0), PairValue(4, 0), BadValue}
      [] key = "PlaceQueryId" -> {6 + section}
      [] key = "ConvertQueryId" -> {10}
      [] key = "AutoPlace" -> {1}
      [] key = "HandleOffset" -> {PairValue(1, 2)}
      [] key = "StepOffsets" -> {PairValue(3, 4)}
      [] key = "Costs" -> {5}
      [] key = "OneWayDir" -> {3, 9}
      [] key = "CopyFrom" -> IF section = 1 THEN {1, 2} ELSE {1, 3}
      [] key = "Rotate" -> {0, 1, 2, 3, 4}
      [] key = "Transpose" -> {1}
      [] key = "Translate" -> {PairValue(1, 2), BadValue}
      [] key = "RotationRing" -> {<<1>>}
      [] key = "AddTypes" -> {<<2>>}
      [] OTHER -> {0}

\* last is the line handed to IniHandler by the latest call of it.
Rul(phase, data, declared, lines, undefined) ==
    [phase |-> phase, data |-> data, declared |-> declared, lines |-> lines,
     undefined |-> undefined, last |-> Line(-1, "", 0)]

\* What was done to the parsed Record after Parse returned: op is the
\* function called, id the piece it was called on, n the number of calls,
\* start the pieces before the first call.
Turn(op, id, n, start, undefined) ==
    [op |-> op, id |-> id, n |-> n, start |-> start, undefined |-> undefined]

RulIdle ==
    /\ rul = Rul("parsing", Record0, <<>>, 0, FALSE)
    /\ turn = Turn("none", 0, 0, <<>>, FALSE)

\* The texts tried name their sections in ascending order, the Ordering
\* section and the unrecognized one before the pieces.
SectionFollows(section) ==
    IF section > 0
    THEN section >= rul.data.currentPiece
    ELSE rul.data.currentPiece = 0

\* ini_parse_string_length hands one more line to IniHandler; a return of 0
\* makes Parse fail.
RulIniHandler ==
    /\ rul.phase = "parsing"
    /\ rul.lines < MaxLines
    /\ \E section \in PieceIds \cup {0, -1} :
       /\ SectionFollows(section)
       /\ \E key \in LineKeys(section) :
          \E value \in LineValues(section, key) :
            LET handled == IniHandler(rul.data, Line(section, key, value))
            IN  rul' = IF handled.ok
                       THEN [rul EXCEPT !.data = handled.data, !.lines = @ + 1,
                                        !.last = Line(section, key, value)]
                       ELSE [Rul("failed", Record0, <<>>, 0, FALSE)
                                EXCEPT !.last = Line(section, key, value)]
    /\ UNCHANGED turn
    /\ UNCHANGED notRulVars

\* The text is at its end: Parse runs BuildNavigationIndices and returns.
RulBuildNavigationIndices ==
    /\ rul.phase = "parsing"
    /\ \E wraps \in BOOLEAN :
        LET built == BuildNavigationIndices(rul.data, wraps)
        IN  rul' = Rul("built", built.data, rul.data.puzzlePieces, rul.lines,
                       built.undefined)
    /\ UNCHANGED turn
    /\ UNCHANGED notRulVars

\* The caller of one of the transformation functions goes on with the same
\* function and piece.
TurnOpen(op, id, most) ==
    /\ rul.phase = "built"
    /\ rul.lines <= MaxTurnedLines
    /\ turn.n < most
    /\ turn.op \in {"none", op}
    /\ turn.n > 0 => id = turn.id

TurnStart == IF turn.n = 0 THEN rul.data.puzzlePieces ELSE turn.start

\* ApplyRotation(piece, Rotation::ROT_90) on a piece of the parsed Record.
RulApplyRotation ==
    /\ \E id \in DOMAIN rul.data.puzzlePieces, wraps \in BOOLEAN :
        /\ TurnOpen("ApplyRotation", id, MaxTurns)
        /\ LET piece == rul.data.puzzlePieces[id]
           IN  /\ rul' = [rul EXCEPT !.data.puzzlePieces[id] =
                                        ApplyRotation(piece, ROT_90, wraps)]
               /\ turn' = Turn("ApplyRotation", id, turn.n + 1, TurnStart,
                               turn.undefined \/
                                   (piece.effect.initialized /\
                                    AngleOverflows(piece.effect.rotation, ROT_90)))
    /\ UNCHANGED notRulVars

\* piece.transpose = true; ApplyTranspose(piece) on a piece of the parsed
\* Record.
RulApplyTranspose ==
    /\ \E id \in DOMAIN rul.data.puzzlePieces :
        /\ TurnOpen("ApplyTranspose", id, MaxFlips)
        /\ LET piece == [rul.data.puzzlePieces[id] EXCEPT !.transpose = TRUE]
           IN  /\ rul' = [rul EXCEPT !.data.puzzlePieces[id] = ApplyTranspose(piece)]
               /\ turn' = Turn("ApplyTranspose", id, turn.n + 1, TurnStart,
                               turn.undefined)
    /\ UNCHANGED notRulVars

\* BuildNavigationIndices(data) once more on the parsed Record.
RulBuildAgain ==
    /\ TurnOpen("BuildNavigationIndices", 0, 1)
    /\ \E wraps \in BOOLEAN :
        LET built == BuildNavigationIndices(rul.data, wraps)
        IN  /\ rul' = [rul EXCEPT !.data = built.data]
            /\ turn' = Turn("BuildNavigationIndices", 0, 1, TurnStart,
                            built.undefined)
    /\ UNCHANGED notRulVars

RulNext ==
    \/ RulIniHandler
    \/ RulBuildNavigationIndices
    \/ RulApplyRotation
    \/ RulApplyTranspose
    \/ RulBuildAgain

(***************************************************************************)
(* RUL0: the claims.                                                       *)
(***************************************************************************)
\* C9, as stated: after the pipeline of Parse every piece's appliedTransform
\* is the (copyFrom, rotate, transpose, translate) it declared, its rotate
\* is NONE, its transpose false and its translate uninitialized, whatever
\* it declared, Rotate=0 included.
C9_TransformsCleared ==
    (rul.phase = "built" /\ turn.n = 0) =>
        \A id \in DOMAIN rul.data.puzzlePieces :
            LET piece == rul.data.puzzlePieces[id]
                declared == rul.declared[id]
            IN  /\ piece.appliedTransform =
                        Transform(declared.copyFrom, declared.rotate,
                                  declared.transpose, declared.translate)
                /\ piece.rotate = RotationNONE
                /\ ~piece.transpose
                /\ ~piece.translate.initialized

\* C10, as stated: after four calls of ApplyRotation(piece, ROT_90) the
\* piece's grids are the rectangular-padded grids it started with, and its
\* preview-effect position, its preview-effect rotation modulo 360, its
\* one-way direction and the flag words of its networks are the ones it
\* started with.
C10_FourTurnsIdentity ==
    (turn.op = "ApplyRotation" /\ turn.n = 4) =>
        LET piece == rul.data.puzzlePieces[turn.id]
            start == turn.start[turn.id]
        IN  /\ piece.cellLayout = NormalizeGrid(start.cellLayout)
            /\ piece.consLayout = NormalizeGrid(start.consLayout)
            /\ piece.effect.x = start.effect.x
            /\ piece.effect.y = start.effect.y
            /\ piece.effect.rotation % 360 = start.effect.rotation % 360
            /\ piece.oneWayDir = start.oneWayDir
            /\ piece.checkTypes = start.checkTypes

\* A grid with rows, all of them empty.
ZeroWidth(grid) == grid # <<>> /\ \A y \in 1..Len(grid) : grid[y] = <<>>

\* C11, as stated: after two calls of ApplyTranspose with transpose set the
\* piece's grids are the rectangular-padded grids it started with, and its
\* preview-effect x, y and flip, its one-way direction and the flag words of
\* its networks are the ones it started with, whatever the piece.
C11_TransposeTwiceIdentity ==
    (turn.op = "ApplyTranspose" /\ turn.n = 2) =>
        LET piece == rul.data.puzzlePieces[turn.id]
            start == turn.start[turn.id]
        IN  /\ piece.cellLayout = NormalizeGrid(start.cellLayout)
            /\ piece.consLayout = NormalizeGrid(start.consLayout)
            /\ piece.effect.x = start.effect.x
            /\ piece.effect.y = start.effect.y
            /\ piece.effect.flip = start.effect.flip
            /\ piece.oneWayDir = start.oneWayDir
            /\ piece.checkTypes = start.checkTypes

\* C11, amended: after two calls of ApplyTranspose with transpose set, a
\* grid with a non-empty row is the rectangular-padded grid the piece
\* started with and a grid whose rows are all empty is the empty grid; the
\* preview-effect x and y, the one-way direction and the flag words are the
\* ones it started with; the flip of an initialized preview effect is 0 if
\* it started as 0 and 1 otherwise.
C11_TransposeTwiceSettles ==
    (turn.op = "ApplyTranspose" /\ turn.n = 2) =>
        LET piece == rul.data.puzzlePieces[turn.id]
            start == turn.start[turn.id]
            Settled(grid) == IF ZeroWidth(grid) THEN <<>> ELSE NormalizeGrid(grid)
        IN  /\ piece.cellLayout = Settled(start.cellLayout)
            /\ piece.consLayout = Settled(start.consLayout)
            /\ piece.effect.x = start.effect.x
            /\ piece.effect.y = start.effect.y
            /\ piece.effect.flip =
                    IF start.effect.initialized /\ start.effect.flip # 0
                    THEN 1
                    ELSE start.effect.flip
            /\ piece.oneWayDir = start.oneWayDir
            /\ piece.checkTypes = start.checkTypes

\* C11, witness: a piece with an initialized preview effect and a grid
\* that has a non-empty row has been transposed twice.
C11_Witness ==
    /\ turn.op = "ApplyTranspose"
    /\ turn.n = 2
    /\ turn.start[turn.id].effect.initialized
    /\ turn.start[turn.id].cellLayout # <<>>
    /\ rul.data.puzzlePieces[turn.id].cellLayout # <<>>

\* C12, as stated: a second run of BuildNavigationIndices on the Record
\* leaves every piece's grids, preview effect, one-way direction, check
\* types and appliedTransform as the first run left them.
C12_SecondRunNoOp ==
    (turn.op = "BuildNavigationIndices" /\ turn.n = 1) =>
        \A id \in DOMAIN rul.data.puzzlePieces :
            LET piece == rul.data.puzzlePieces[id]
                first == turn.start[id]
            IN  /\ piece.cellLayout = first.cellLayout
                /\ piece.consLayout = first.consLayout
                /\ piece.effect = first.effect
                /\ piece.oneWayDir = first.oneWayDir
                /\ piece.checkTypes = first.checkTypes
                /\ piece.appliedTransform = first.appliedTransform

\* The piece declared nothing but its content: no CopyFrom, Rotate,
\* Transpose or Translate.
NoTransform(declared) ==
    /\ declared.copyFrom = 0
    /\ declared.rotate = RotationNONE
    /\ ~declared.transpose
    /\ ~declared.translate.initialized

\* Parse has returned a Record in which piece d declared CopyFrom=s and
\* Rotate=k and nothing else, and s is a piece with a lower id and no
\* transform.
CopiesAndRotates(d, s, k) ==
    /\ rul.phase = "built"
    /\ turn.n = 0
    /\ d \in DOMAIN rul.declared
    /\ s \in DOMAIN rul.declared
    /\ s < d
    /\ rul.declared[d].copyFrom = s
    /\ rul.declared[d].rotate = k
    /\ ~rul.declared[d].transpose
    /\ ~rul.declared[d].translate.initialized
    /\ NoTransform(rul.declared[s])

\* A grid turned k quarter-turns clockwise, written out for the claim:
\* k = 0 leaves it as it is, otherwise it is padded and turned.
RECURSIVE QuarterTurns(_, _)
QuarterTurns(grid, k) ==
    IF k = 0 \/ grid = <<>>
    THEN grid
    ELSE LET padded == NormalizeGrid(grid)
             h == Len(padded)
             w == Len(padded[1])
             once == [x \in 1..w |-> [c \in 1..h |-> padded[h - c + 1][x]]]
         IN  IF k = 1 THEN once ELSE QuarterTurns(once, k - 1)

\* What the claim says of the layouts, the ids and appliedTransform.
CopiedLayouts(d, s, k) ==
    LET D == rul.data.puzzlePieces[d]
        S == rul.data.puzzlePieces[s]
    IN  /\ D.cellLayout = QuarterTurns(S.cellLayout, k)
        /\ D.consLayout = QuarterTurns(S.consLayout, k)
        /\ (S.cellLayout = <<<<"A", "B">>, <<"C", "D">>>> /\ k = 1)
                => D.cellLayout = <<<<"C", "A">>, <<"D", "B">>>>
        /\ (S.cellLayout = <<<<"A", "B">>, <<"C", "D">>>> /\ k = 2)
                => D.cellLayout = <<<<"D", "C">>, <<"B", "A">>>>
        /\ D.id = d
        /\ D.placeQueryId = rul.declared[d].placeQueryId
        /\ D.appliedTransform.copyFrom = s
        /\ D.costs = S.costs

CopiesFrom(d, s) ==
    /\ rul.phase = "built" /\ turn.n = 0 /\ ~rul.undefined
    /\ d \in DOMAIN rul.declared /\ s \in DOMAIN rul.declared
    /\ d # s
    /\ rul.declared[d].copyFrom = s

\* The piece d after its turn of the pipeline, had the source s been as
\* `source` at that turn.
CopiedFrom(d, s, source) ==
    TransformPiece([rul.declared EXCEPT ![s] = source], d, FALSE)

C23_CopyWhateverTheIdOrder ==
    \A d \in PieceIds, s \in PieceIds :
        CopiesFrom(d, s) =>
            rul.data.puzzlePieces[d] = CopiedFrom(d, s, rul.data.puzzlePieces[s])

\* C23, amended: D receives the transformed fields of S when the id of S
\* is lower than its own, and the fields of S as S declared them, without
\* the transforms of S, when the id of S is higher.
C23_CopyFollowsIdOrder ==
    \A d \in PieceIds, s \in PieceIds :
        CopiesFrom(d, s) =>
            rul.data.puzzlePieces[d] =
                CopiedFrom(d, s, IF s < d THEN rul.data.puzzlePieces[s]
                                          ELSE rul.declared[s])

\* C23, witness: piece 1 copied piece 2, which declared the row "AB" and a
\* quarter-turn; piece 1 has the row as declared, piece 2 has it turned.
C23_Witness ==
    /\ CopiesFrom(1, 2)
    /\ rul.declared[2].rotate = ROT_90
    /\ rul.declared[2].cellLayout = <<<<"A", "B">>>>
    /\ rul.data.puzzlePieces[1].cellLayout = <<<<"A", "B">>>>
    /\ rul.data.puzzlePieces[2].cellLayout # <<<<"A", "B">>>>

\* The keys of the Ordering section and of a HighwayIntersectionInfo_
\* section.
OrderingKeys == {"RotationRing", "AddTypes"}

PieceKeys ==
    {"Piece", "PreviewEffect", "CellLayout", "ConsLayout", "CheckType",
     "AutoTileBase", "AutoPathBase", "PlaceQueryId", "ConvertQueryId", "Costs",
     "AutoPlace", "OneWayDir", "HandleOffset", "StepOffsets", "CopyFrom", "Rotate",
     "Transpose", "Translate", "ReplacementIntersection"}

\* The step is a call of IniHandler, with the line rul'.last.
Fed ==
    /\ rul.phase = "parsing"
    /\ \/ rul'.phase = "parsing" /\ rul'.lines = rul.lines + 1
       \/ rul'.phase = "failed"

Rejected == rul'.phase = "failed"

Accepted == rul'.phase = "parsing"

C28_RejectedReached ==
    /\ rul.phase = "failed"
    /\ rul.last.section > 0
    /\ rul.last.key = "Rotate"
    /\ rul.last.value = 4

C28_OtherSectionReached ==
    /\ rul.phase = "parsing"
    /\ rul.last.section < 0
    /\ rul.lines = 2
    /\ rul.data.orderings # <<>>

(***************************************************************************)
(* LText reader (src/src/LTextReader.cpp).  A buffer is a sequence of      *)
(* bytes, a std::u16string a sequence of code units 0..65535, a            *)
(* std::string a sequence of bytes; the host is little-endian.             *)
(***************************************************************************)
kControlChar == 4096

\* The two bytes a code unit occupies in memory.
UnitBytes(unit) == <<unit % 256, unit \div 256>>

RECURSIVE UnitsToBytes(_)
UnitsToBytes(text) ==
    IF text = <<>> THEN <<>>
    ELSE UnitBytes(Head(text)) \o UnitsToBytes(Tail(text))

\* The uint16_t that memcpy reads at C++ index i of the buffer.
U16At(buffer, i) == buffer[i + 1] + 256 * buffer[i + 2]

\* memcpy(record.text.data(), data + from, 2 * count), read with every
\* unit's bytes exchanged.
CopyUnits_Swapped(buffer, from, count) ==
    [k \in 1..count |-> 256 * buffer[from + 2 * k - 1] + buffer[from + 2 * k]]

\* memcpy(record.text.data(), data + from, 2 * count): the code units the
\* string holds afterwards.
CopyUnits(buffer, from, count) ==
    [k \in 1..count |-> U16At(buffer, from + 2 * (k - 1))]

\* The bytes EncodeUtf8 pushes for one code point.
Utf8Bytes(codePoint) ==
    IF codePoint <= 127 THEN <<codePoint>>
    ELSE IF codePoint <= 2047
    THEN <<192 + ((codePoint \div 64) % 32), 128 + (codePoint % 64)>>
    ELSE IF codePoint <= 65535
    THEN <<224 + ((codePoint \div 4096) % 16),
           128 + ((codePoint \div 64) % 64),
           128 + (codePoint % 64)>>
    ELSE <<240 + ((codePoint \div 262144) % 8),
           128 + ((codePoint \div 4096) % 64),
           128 + ((codePoint \div 64) % 64),
           128 + (codePoint % 64)>>

IsLead(unit) == unit >= 55296 /\ unit <= 56319

IsTrail(unit) == unit >= 56320 /\ unit <= 57343

\* The loop of EncodeUtf8 from C++ index i of the text on.
RECURSIVE EncodeUtf8From(_, _)
EncodeUtf8From(text, i) ==
    IF i >= Len(text) THEN <<>>
    ELSE LET unit == text[i + 1]
             paired == IsLead(unit) /\ i + 1 < Len(text) /\ IsTrail(text[i + 2])
             codePoint ==
                 IF IsLead(unit)
                 THEN IF paired
                      THEN 65536 + (unit - 55296) * 1024 + (text[i + 2] - 56320)
                      ELSE 65533
                 ELSE IF IsTrail(unit) THEN 65533 ELSE unit
         IN  Utf8Bytes(codePoint)
                 \o EncodeUtf8From(text, IF paired THEN i + 2 ELSE i + 1)

EncodeUtf8(text) == EncodeUtf8From(text, 0)

\* The code units DecodeUtf8Lossy pushes for one code point.
Utf16Units(codePoint) ==
    IF codePoint <= 65535 THEN <<codePoint>>
    ELSE <<55296 + (((codePoint - 65536) \div 1024) % 1024),
           56320 + ((codePoint - 65536) % 1024)>>

\* The loop of DecodeUtf8Lossy from C++ index i of the bytes on.
RECURSIVE DecodeUtf8LossyFrom(_, _)
DecodeUtf8LossyFrom(text, i) ==
    IF i >= Len(text) THEN <<>>
    ELSE LET byte == text[i + 1]
             b(k) == text[i + 1 + k]
             two == byte \div 32 = 6 /\ i + 1 < Len(text)
             three == byte \div 16 = 14 /\ i + 2 < Len(text)
             four == byte \div 8 = 30 /\ i + 3 < Len(text)
             codePoint ==
                 IF byte < 128 THEN byte
                 ELSE IF two THEN (byte % 32) * 64 + (b(1) % 64)
                 ELSE IF three
                 THEN (byte % 16) * 4096 + (b(1) % 64) * 64 + (b(2) % 64)
                 ELSE IF four
                 THEN (byte % 8) * 262144 + (b(1) % 64) * 4096
                          + (b(2) % 64) * 64 + (b(3) % 64)
                 ELSE 65533
             used == IF byte < 128 THEN 1
                     ELSE IF two THEN 2
                     ELSE IF three THEN 3
                     ELSE IF four THEN 4
                     ELSE 1
         IN  Utf16Units(codePoint) \o DecodeUtf8LossyFrom(text, i + used)

DecodeUtf8Lossy(text) == DecodeUtf8LossyFrom(text, 0)

\* A ParseExpected<LText::Record>.
Parsed(ok, text) == [ok |-> ok, text |-> text]

\* raw.substr(0, raw.find('\0')): the bytes before the first zero byte.
UpToNul(raw) ==
    LET nul == { i \in 1..Len(raw) : raw[i] = 0 }
    IN  IF nul = {} THEN raw
        ELSE SubSeq(raw, 1, (CHOOSE i \in nul : \A j \in nul : i <= j) - 1)

ParseFallback(buffer) ==
    LET raw == UpToNul(buffer)
    IN  IF raw = <<>> THEN Parsed(FALSE, <<>>)
        ELSE Parsed(TRUE, DecodeUtf8Lossy(raw))

\* LText::Parse.
Parse(buffer) ==
    IF buffer = <<>> THEN Parsed(FALSE, <<>>)
    ELSE IF Len(buffer) < 4 THEN ParseFallback(buffer)
    ELSE LET charCount == U16At(buffer, 0)
             control == U16At(buffer, 2)
             payloadBytes == Len(buffer) - 4
             expectedBytes == charCount * 2
             hasControl == control = kControlChar
             lengthMatches == payloadBytes = expectedBytes
                                  /\ payloadBytes % 2 = 0
         IN  IF ~hasControl \/ ~lengthMatches
             THEN ParseFallback(buffer)
             ELSE Parsed(TRUE, CopyUnits(buffer, 4, charCount))

\* BuildLTextBuffer of the tests: count, control word, the units.
BuildLTextBuffer(text) ==
    LET charCount == Len(text) % 65536
    IN  <<charCount % 256, charCount \div 256, 0, 16>>
            \o UnitsToBytes(SubSeq(text, 1, charCount))

(***************************************************************************)
(* Specification SpecLText: a buffer is built from a text, a byte of it    *)
(* may be overwritten or its last byte dropped, Parse is run on it and     *)
(* ToUtf8 on the record it returned.                                       *)
(***************************************************************************)
MaxUnits == 2

MaxEdits == 1

\* 'T', e-acute, U+1000, a lead and a trail surrogate, NUL.
Units == {84, 233, 4096, 55357, 56832, 0}

\* u"Test" and u"City " followed by the pair D83D DE00, as in the tests.
TestTexts ==
    { <<84, 101, 115, 116>>, <<67, 105, 116, 121, 32, 55357, 56832>> }

Texts ==
    UNION { [1..n -> Units] : n \in 0..MaxUnits } \cup TestTexts

EditBytes == {0, 255, 84}

LTextState(phase, text, buffer, edits, parsed, utf8) ==
    [phase |-> phase, text |-> text, buffer |-> buffer, edits |-> edits,
     parsed |-> parsed, utf8 |-> utf8]

LTextIdle == ltext = LTextState("idle", <<>>, <<>>, 0, Parsed(FALSE, <<>>), <<>>)

LTextBuild ==
    /\ ltext.phase = "idle"
    /\ \E text \in Texts :
           ltext' = [ltext EXCEPT !.phase = "built", !.text = text,
                                  !.buffer = BuildLTextBuffer(text)]
    /\ UNCHANGED notLTextVars

\* buffer[i] = value, as the tests do to spoil a header.
LTextSetByte ==
    /\ ltext.phase = "built"
    /\ ltext.edits < MaxEdits
    /\ \E i \in 0..(Len(ltext.buffer) - 1), value \in EditBytes :
           /\ ltext.buffer[i + 1] # value
           /\ ltext' = [ltext EXCEPT !.buffer[i + 1] = value,
                                     !.edits = @ + 1]
    /\ UNCHANGED notLTextVars

\* The buffer without its last byte.
LTextTruncate ==
    /\ ltext.phase = "built"
    /\ ltext.edits < MaxEdits
    /\ ltext.buffer # <<>>
    /\ ltext' = [ltext EXCEPT
                     !.buffer = SubSeq(@, 1, Len(@) - 1), !.edits = @ + 1]
    /\ UNCHANGED notLTextVars

LTextParse ==
    /\ ltext.phase = "built"
    /\ ltext' = [ltext EXCEPT !.phase = "parsed", !.parsed = Parse(ltext.buffer)]
    /\ UNCHANGED notLTextVars

LTextToUtf8 ==
    /\ ltext.phase = "parsed"
    /\ ltext.parsed.ok
    /\ ltext' = [ltext EXCEPT !.phase = "encoded",
                              !.utf8 = EncodeUtf8(ltext.parsed.text)]
    /\ UNCHANGED notLTextVars

LTextNext ==
    \/ LTextBuild
    \/ LTextSetByte
    \/ LTextTruncate
    \/ LTextParse
    \/ LTextToUtf8

\* Every lead surrogate of the text is followed by a trail surrogate and
\* every trail surrogate follows a lead one.
MatchedSurrogates(text) ==
    \A i \in 1..Len(text) :
        /\ IsLead(text[i]) => (i < Len(text) /\ IsTrail(text[i + 1]))
        /\ IsTrail(text[i]) => (i > 1 /\ IsLead(text[i - 1]))

(***************************************************************************)
(* C14: for every text t of code units with matched surrogate pairs,       *)
(* parsing the buffer [length of t, 0x1000, the units of t] succeeds and   *)
(* the record's text is t.                                                 *)
(***************************************************************************)
C14_BuiltBufferRoundTrip ==
    (/\ ltext.phase \in {"parsed", "encoded"}
     /\ ltext.buffer = BuildLTextBuffer(ltext.text)
     /\ MatchedSurrogates(ltext.text))
        => (ltext.parsed.ok /\ ltext.parsed.text = ltext.text)

\* u"City " and the surrogate pair of the tests, parsed from its buffer and
\* encoded as "City \xF0\x9F\x98\x80".
C14_Witness ==
    /\ ltext.phase = "encoded"
    /\ ltext.edits = 0
    /\ ltext.text = <<67, 105, 116, 121, 32, 55357, 56832>>
    /\ ltext.parsed.text = ltext.text
    /\ ltext.utf8 = <<67, 105, 116, 121, 32, 240, 159, 152, 128>>

\* The control word of the buffer is not 0x1000 while the count and the
\* units are those BuildLTextBuffer wrote for the text.
OnlyControlSpoiled(buffer, text) ==
    /\ Len(buffer) = Len(BuildLTextBuffer(text))
    /\ U16At(buffer, 2) # kControlChar
    /\ \A i \in 1..Len(buffer) :
           i \notin {3, 4} => buffer[i] = BuildLTextBuffer(text)[i]

(***************************************************************************)
(* C15: for a buffer whose count and units are well-formed but whose       *)
(* control word is not 0x1000, Parse succeeds and ToUtf8 of the record is  *)
(* the UTF-8 of the original text (u"Test" with byte 2 set to 0xFF gives   *)
(* "Test").                                                                *)
(***************************************************************************)
C15_SpoiledControlKeepsText ==
    (/\ ltext.phase \in {"parsed", "encoded"}
     /\ OnlyControlSpoiled(ltext.buffer, ltext.text))
        => /\ ltext.parsed.ok
           /\ ltext.phase = "encoded" => ltext.utf8 = EncodeUtf8(ltext.text)

(***************************************************************************)
(* Exemplar reader (src/src/ExemplarReader.cpp).  A buffer and a text are  *)
(* sequences of bytes; a TextCursor is the C++ index ptr - text.data() of  *)
(* the next character, its end the length of the text.  An int64_t is its  *)
(* two's-complement bit pattern, a word of 4 limbs; uint32_t and int32_t   *)
(* values are words of 2 limbs.  Every parsing function returns a record   *)
(* with ok (whether it succeeded), pos (the cursor or reader offset after  *)
(* it) and value.                                                          *)
(***************************************************************************)
Res(ok, pos, value) == [ok |-> ok, pos |-> pos, value |-> value]

\* TextCursor::AtEnd and TextCursor::Peek.
AtEnd(text, ptr) == ptr >= Len(text)

Peek(text, ptr) == IF AtEnd(text, ptr) THEN 0 ELSE text[ptr + 1]

\* std::isspace, std::isdigit, std::isalpha, std::isxdigit and std::tolower
\* in the "C" locale.
IsSpace(c) == c = 32 \/ (c >= 9 /\ c <= 13)

IsDigit(c) == c >= 48 /\ c <= 57

IsUpper(c) == c >= 65 /\ c <= 90

IsAlpha(c) == IsUpper(c) \/ (c >= 97 /\ c <= 122)

IsXDigit(c) == IsDigit(c) \/ (c >= 65 /\ c <= 70) \/ (c >= 97 /\ c <= 102)

ToLowerChar(c) == IF IsUpper(c) THEN c + 32 ELSE c

ToLower(text) == [i \in 1..Len(text) |-> ToLowerChar(text[i])]

\* The characters of a class.
Chars(Class(_)) == { c \in 0..255 : Class(c) }

\* The cursor after the longest run of characters of a class.
RECURSIVE SkipWhile(_, _, _)
SkipWhile(text, ptr, class) ==
    IF ~AtEnd(text, ptr) /\ text[ptr + 1] \in class
    THEN SkipWhile(text, ptr + 1, class)
    ELSE ptr

SpaceChars == Chars(IsSpace)

DigitChars == Chars(IsDigit)

AlphaChars == Chars(IsAlpha)

XDigitChars == Chars(IsXDigit)

SkipWhitespace(text, ptr) == SkipWhile(text, ptr, SpaceChars)

ConsumeLiteralCaseInsensitive(text, ptr, literal) ==
    IF /\ ptr + Len(literal) <= Len(text)
       /\ \A i \in 1..Len(literal) :
              ToLowerChar(text[ptr + i]) = ToLowerChar(literal[i])
    THEN Res(TRUE, ptr + Len(literal), <<>>)
    ELSE Res(FALSE, ptr, <<>>)

ConsumeChar(text, ptr, ch) ==
    IF AtEnd(text, ptr) \/ Peek(text, ptr) # ch
    THEN Res(FALSE, ptr, <<>>)
    ELSE Res(TRUE, ptr + 1, <<>>)

ExpectChar(text, ptr, ch) == ConsumeChar(text, SkipWhitespace(text, ptr), ch)

ExpectLiteral(text, ptr, literal) ==
    ConsumeLiteralCaseInsensitive(text, SkipWhitespace(text, ptr), literal)

\* The loop of ParseStringLiteral: the characters up to the closing "}.
RECURSIVE StringLiteralLoop(_, _, _)
StringLiteralLoop(text, ptr, value) ==
    IF AtEnd(text, ptr) THEN Res(FALSE, ptr, value)
    ELSE IF text[ptr + 1] = 34 /\ Len(text) - ptr >= 2 /\ text[ptr + 2] = 125
    THEN Res(TRUE, ptr + 2, value)
    ELSE StringLiteralLoop(text, ptr + 1, Append(value, text[ptr + 1]))

ParseStringLiteral(text, ptr) ==
    LET brace == ConsumeChar(text, SkipWhitespace(text, ptr), 123)
        quote == ConsumeChar(text, brace.pos, 34)
    IN  IF ~brace.ok \/ ~quote.ok THEN Res(FALSE, quote.pos, <<>>)
        ELSE StringLiteralLoop(text, quote.pos, <<>>)

IsAlnum(c) == IsAlpha(c) \/ IsDigit(c)

AlnumChars == Chars(IsAlnum)

ParseIdentifier(text, ptr) ==
    LET start == SkipWhitespace(text, ptr)
        stop == SkipWhile(text, start, AlnumChars)
    IN  IF start = stop THEN Res(FALSE, stop, <<>>)
        ELSE Res(TRUE, stop, SubSeq(text, start + 1, stop))

(***************************************************************************)
(* 64-bit values of the text dialect.                                      *)
(***************************************************************************)
Int64Zero == <<0, 0, 0, 0>>

Int64Max == <<65535, 65535, 65535, 32767>>

Int64Min == <<0, 0, 0, 32768>>

\* value < 0 of an int64_t.
IsNegative(value) == value[Len(value)] >= 32768

\* -value in int64_t (two's complement; Int64Min is its own negative only
\* where the overflow wraps).
Negated(value) == WordSub(Int64Zero, value)

\* static_cast<int64_t> of a small number.
Int64(n) == IF n >= 0 THEN ToWord(n, 4) ELSE Negated(ToWord(0 - n, 4))

\* a < b of two int64_t.
Int64Less(a, b) ==
    IF IsNegative(a) # IsNegative(b) THEN IsNegative(a) ELSE WordLess(a, b)

\* The value of the digit character c in base 16.
DigitValue(c) ==
    IF IsDigit(c) THEN c - 48 ELSE IF c >= 97 THEN c - 87 ELSE c - 55

\* std::from_chars(first, last, value, base) into a uint64_t: the digits
\* are accumulated in 5 limbs; a value that leaves 64 bits is out of range.
RECURSIVE FromCharsLoop(_, _, _)
FromCharsLoop(digits, base, acc) ==
    IF digits = <<>> THEN Res(TRUE, 0, SubSeq(acc, 1, 4))
    ELSE LET next == WordAdd(WordMul(acc, base),
                             ToWord(DigitValue(Head(digits)), 5))
         IN  IF next[5] # 0 THEN Res(FALSE, 0, Int64Zero)
             ELSE FromCharsLoop(Tail(digits), base, next)

FromChars(digits, base) == FromCharsLoop(digits, base, ToWord(0, 5))

\* What ParseIntegerLiteral returns: value is the int64_t, undefined
\* whether it was computed by an overflowing negation.
IntRes(ok, pos, value, undefined) ==
    [ok |-> ok, pos |-> pos, value |-> value, undefined |-> undefined]

\* The signed reading of a hex literal with the sign bit left alone.
SignedValue_SignIgnored(value, signedBits) == value

\* The signed reading of a hex literal below 2^signedBits (signedBits is 32
\* or 64): value - limit when the sign bit is set, in int64_t.
SignedValue(value, signedBits) ==
    IF signedBits < 64 /\ value[2] >= 32768
    THEN WordSub(value, <<0, 0, 1, 0>>)
    ELSE value

\* The hexadecimal branch of ParseIntegerLiteral, ptr after the "0x".
HexLiteral(text, ptr, negative, interpretHexAsSigned, signedBits) ==
    LET stop == SkipWhile(text, ptr, XDigitChars)
        result == FromChars(SubSeq(text, ptr + 1, stop), 16)
        value == result.value
        limitExceeded == value[3] # 0 \/ value[4] # 0
        signedValue == SignedValue(value, signedBits)
    IN  IF ptr = stop THEN IntRes(FALSE, stop, Int64Zero, FALSE)
        ELSE IF ~result.ok THEN IntRes(FALSE, stop, Int64Zero, FALSE)
        ELSE IF interpretHexAsSigned
        THEN IF signedBits < 1 \/ signedBits > 64
             THEN IntRes(FALSE, stop, Int64Zero, FALSE)
             ELSE IF signedBits < 64 /\ limitExceeded
             THEN IntRes(FALSE, stop, Int64Zero, FALSE)
             ELSE IF negative
             THEN IntRes(TRUE, stop, Negated(signedValue),
                         signedValue = Int64Min)
             ELSE IntRes(TRUE, stop, signedValue, FALSE)
        ELSE IF WordGreater(value, Int64Max)
        THEN IntRes(FALSE, stop, Int64Zero, FALSE)
        ELSE IF negative THEN IntRes(TRUE, stop, Negated(value), FALSE)
        ELSE IntRes(TRUE, stop, value, FALSE)

\* The decimal branch of ParseIntegerLiteral: from_chars into a long long.
DecimalLiteral(text, ptr, negative) ==
    LET stop == SkipWhile(text, ptr, DigitChars)
        result == FromChars(SubSeq(text, ptr + 1, stop), 10)
    IN  IF ptr = stop THEN IntRes(FALSE, stop, Int64Zero, FALSE)
        ELSE IF ~result.ok \/ WordGreater(result.value, Int64Max)
        THEN IntRes(FALSE, stop, Int64Zero, FALSE)
        ELSE IF negative THEN IntRes(TRUE, stop, Negated(result.value), FALSE)
        ELSE IntRes(TRUE, stop, result.value, FALSE)

ParseIntegerLiteral(text, ptr, interpretHexAsSigned, signedBits) ==
    LET start == SkipWhitespace(text, ptr)
        negative == Peek(text, start) = 45
        literalStart == IF negative THEN start + 1 ELSE start
        isHex == /\ Len(text) - literalStart >= 2
                 /\ text[literalStart + 1] = 48
                 /\ text[literalStart + 2] \in {120, 88}
    IN  IF AtEnd(text, start) THEN IntRes(FALSE, start, Int64Zero, FALSE)
        ELSE IF AtEnd(text, literalStart)
        THEN IntRes(FALSE, literalStart, Int64Zero, FALSE)
        ELSE IF isHex
        THEN HexLiteral(text, literalStart + 2, negative,
                        interpretHexAsSigned, signedBits)
        ELSE DecimalLiteral(text, literalStart, negative)
\* The characters ParseFloatLiteral takes into its token.
IsFloatChar(c) == IsDigit(c) \/ c \in {45, 43, 46, 101, 69}

FloatChars == Chars(IsFloatChar)

IsSign(c) == c = 45 \/ c = 43

\* Whether std::strtof consumes the whole token: an optional sign, digits
\* with at most one point and at least one digit, and an optional exponent
\* of e or E, an optional sign and at least one digit.
StrtofTakesAll(token) ==
    LET s == IF IsSign(Peek(token, 0)) THEN 1 ELSE 0
        d1 == SkipWhile(token, s, DigitChars)
        point == Peek(token, d1) = 46
        d2 == IF point THEN SkipWhile(token, d1 + 1, DigitChars) ELSE d1
        mantissa == (d1 - s) + (IF point THEN d2 - d1 - 1 ELSE 0)
        exponent == Peek(token, d2) \in {101, 69}
        es == IF IsSign(Peek(token, d2 + 1)) THEN d2 + 2 ELSE d2 + 1
        d3 == SkipWhile(token, es, DigitChars)
    IN  /\ mantissa >= 1
        /\ IF exponent THEN d3 > es /\ d3 = Len(token) ELSE d2 = Len(token)

\* A value of the variant: alt names the alternative held, bits the value
\* (a word, for a bool 0 or 1, for a string its bytes; a float is kept as
\* the 4 bytes or the token it was read from).
Value(alt, bits) == [alt |-> alt, bits |-> bits]

ParseFloatLiteral(text, ptr) ==
    LET start == SkipWhitespace(text, ptr)
        stop == SkipWhile(text, start, FloatChars)
        token == SubSeq(text, start + 1, stop)
    IN  IF AtEnd(text, start) \/ start = stop \/ ~StrtofTakesAll(token)
        THEN IntRes(FALSE, stop, Value("float", <<>>), FALSE)
        ELSE IntRes(TRUE, stop, Value("float", token), FALSE)

ParseBoolLiteral(text, ptr) ==
    LET start == SkipWhitespace(text, ptr)
        stop == SkipWhile(text, start, AlphaChars)
        lower == ToLower(SubSeq(text, start + 1, stop))
        number == ParseIntegerLiteral(text, start, FALSE, 64)
    IN  IF AtEnd(text, start) THEN IntRes(FALSE, start, Value("bool", <<0>>), FALSE)
        ELSE IF IsAlpha(Peek(text, start))
        THEN IF lower = <<116, 114, 117, 101>> (* true *)
             THEN IntRes(TRUE, stop, Value("bool", <<1>>), FALSE)
             ELSE IF lower = <<102, 97, 108, 115, 101>> (* false *)
             THEN IntRes(TRUE, stop, Value("bool", <<0>>), FALSE)
             ELSE IntRes(FALSE, stop, Value("bool", <<0>>), FALSE)
        ELSE IntRes(number.ok, number.pos,
                    Value("bool", IF number.value # Int64Zero THEN <<1>> ELSE <<0>>),
                    number.undefined)

\* std::numeric_limits<T>::max() and min() as int64_t.
UInt8Max == Int64(255)

UInt16Max == Int64(65535)

UInt32Max == <<65535, 65535, 0, 0>>

Int32Max == <<65535, 32767, 0, 0>>

Int32Min == <<0, 32768, 65535, 65535>>

ParseValueTypeToken(token) ==
    LET lower == ToLower(token)
    IN  IF lower = <<117, 105, 110, 116, 56>> (* uint8 *) THEN "UInt8"
        ELSE IF lower = <<117, 105, 110, 116, 49, 54>> (* uint16 *) THEN "UInt16"
        ELSE IF lower = <<117, 105, 110, 116, 51, 50>> (* uint32 *) THEN "UInt32"
        ELSE IF lower = <<115, 105, 110, 116, 51, 50>> (* sint32 *) THEN "SInt32"
        ELSE IF lower = <<115, 105, 110, 116, 54, 52>> (* sint64 *) THEN "SInt64"
        ELSE IF lower = <<102, 108, 111, 97, 116, 51, 50>> (* float32 *) THEN "Float32"
        ELSE IF lower = <<98, 111, 111, 108>> (* bool *) THEN "Bool"
        ELSE IF lower = <<115, 116, 114, 105, 110, 103>> (* string *) THEN "String"
        ELSE "nullopt"

\* auto value = ...; followed by the rest of the function, which uses it.
With(value, Rest(_)) == Rest(value)

\* An unsigned case of ParseValueVariant: the literal, the range check and
\* the cast to `limbs` limbs.
UnsignedVariant(text, ptr, alt, max, limbs) ==
    With(ParseIntegerLiteral(text, ptr, FALSE, 64), LAMBDA number :
        IF ~number.ok THEN IntRes(FALSE, number.pos, Value(alt, <<>>), FALSE)
        ELSE IF IsNegative(number.value) \/ Int64Less(max, number.value)
        THEN IntRes(FALSE, number.pos, Value(alt, <<>>), number.undefined)
        ELSE IntRes(TRUE, number.pos,
                    Value(alt, SubSeq(number.value, 1, limbs)), number.undefined))

ParseValueVariant(text, ptr, type) ==
    CASE type = "UInt8" -> UnsignedVariant(text, ptr, "uint8_t", UInt8Max, 1)
      [] type = "UInt16" -> UnsignedVariant(text, ptr, "uint16_t", UInt16Max, 1)
      [] type = "UInt32" -> UnsignedVariant(text, ptr, "uint32_t", UInt32Max, 2)
      [] type = "SInt32" ->
            With(ParseIntegerLiteral(text, ptr, TRUE, 32), LAMBDA number :
                IF ~number.ok
                THEN IntRes(FALSE, number.pos, Value("int32_t", <<>>), FALSE)
                ELSE IF \/ Int64Less(number.value, Int32Min)
                        \/ Int64Less(Int32Max, number.value)
                THEN IntRes(FALSE, number.pos, Value("int32_t", <<>>),
                            number.undefined)
                ELSE IntRes(TRUE, number.pos,
                            Value("int32_t", SubSeq(number.value, 1, 2)),
                            number.undefined))
      [] type = "SInt64" ->
            With(ParseIntegerLiteral(text, ptr, TRUE, 64), LAMBDA number :
                IntRes(number.ok, number.pos,
                       Value("int64_t", IF number.ok THEN number.value ELSE <<>>),
                       number.undefined))
      [] type = "Float32" -> ParseFloatLiteral(text, ptr)
      [] type = "Bool" -> ParseBoolLiteral(text, ptr)
      [] OTHER -> IntRes(FALSE, ptr, Value("std::string", <<>>), FALSE)

\* The scan of ConsumeOptionalNameKey: the index of the first of : , } "
\* at or after scan, or the end of the text.
IsKeyStop(c) == c \in {58, 44, 125, 34}

NoKeyStopChars == { c \in 0..255 : ~IsKeyStop(c) }

ConsumeOptionalNameKey(text, ptr) ==
    LET start == SkipWhitespace(text, ptr)
        scan == SkipWhile(text, start, NoKeyStopChars)
    IN  IF scan < Len(text) /\ text[scan + 1] = 58 /\ scan # start
        THEN SkipWhitespace(text, scan + 1)
        ELSE start

\* The loop of ParseValueArray, the cursor after the opening brace or a
\* comma.
RECURSIVE ValueArrayLoop(_, _, _, _, _)
ValueArrayLoop(text, ptr, type, values, undefined) ==
    LET start == SkipWhitespace(text, ptr)
    IN  IF AtEnd(text, start) THEN IntRes(FALSE, start, values, undefined)
        ELSE IF Peek(text, start) = 125
        THEN IntRes(TRUE, start + 1, values, undefined)
        ELSE
        With(ParseValueVariant(text,
                 SkipWhitespace(text, ConsumeOptionalNameKey(text, start)),
                 type), LAMBDA value :
        LET after == SkipWhitespace(text, value.pos)
            undef == undefined \/ value.undefined
        IN  IF ~value.ok THEN IntRes(FALSE, value.pos, values, undef)
            ELSE IF AtEnd(text, after) THEN IntRes(FALSE, after, values, undef)
            ELSE IF Peek(text, after) = 44
            THEN ValueArrayLoop(text, after + 1, type,
                                Append(values, value.value), undef)
            ELSE IF Peek(text, after) = 125
            THEN IntRes(TRUE, after + 1, Append(values, value.value), undef)
            ELSE IntRes(FALSE, after, values, undef))

ParseValueArray(text, ptr, type) ==
    LET open == ExpectChar(text, ptr, 123)
    IN  IF ~open.ok THEN IntRes(FALSE, open.pos, <<>>, FALSE)
        ELSE ValueArrayLoop(text, open.pos, type, <<>>, FALSE)

\* A DBPF::Tgi of the exemplar.
ParentTgi(type, group, instance) ==
    [type |-> type, group |-> group, instance |-> instance]

\* Whether an int64_t is a uint32_t.
IsUInt32(value) == ~IsNegative(value) /\ ~Int64Less(UInt32Max, value)

ParseTextParent(text, ptr) ==
    LET none == ParentTgi(<<0, 0>>, <<0, 0>>, <<0, 0>>)
    IN  With(ExpectLiteral(text, ptr, <<80, 97, 114, 101, 110, 116, 67, 111, 104, 111, 114, 116, 61, 75, 101, 121, 58>> (* ParentCohort=Key: *)), LAMBDA literal :
        IF ~literal.ok THEN Res(FALSE, literal.pos, none) ELSE
        With(ExpectChar(text, literal.pos, 123), LAMBDA open :
        IF ~open.ok THEN Res(FALSE, open.pos, none) ELSE
        With(ParseIntegerLiteral(text, open.pos, FALSE, 64), LAMBDA p0 :
        IF ~p0.ok THEN Res(FALSE, p0.pos, none) ELSE
        With(ExpectChar(text, p0.pos, 44), LAMBDA c0 :
        IF ~c0.ok THEN Res(FALSE, c0.pos, none) ELSE
        With(ParseIntegerLiteral(text, c0.pos, FALSE, 64), LAMBDA p1 :
        IF ~p1.ok THEN Res(FALSE, p1.pos, none) ELSE
        With(ExpectChar(text, p1.pos, 44), LAMBDA c1 :
        IF ~c1.ok THEN Res(FALSE, c1.pos, none) ELSE
        With(ParseIntegerLiteral(text, c1.pos, FALSE, 64), LAMBDA p2 :
        IF ~p2.ok THEN Res(FALSE, p2.pos, none) ELSE
        With(ExpectChar(text, p2.pos, 125), LAMBDA close :
        IF ~close.ok THEN Res(FALSE, close.pos, none)
        ELSE IF ~IsUInt32(p0.value) \/ ~IsUInt32(p1.value) \/ ~IsUInt32(p2.value)
        THEN Res(FALSE, close.pos, none)
        ELSE Res(TRUE, close.pos,
                 ParentTgi(SubSeq(p2.value, 1, 2), SubSeq(p0.value, 1, 2),
                           SubSeq(p1.value, 1, 2)))))))))))

ParseTextPropertyCount(text, ptr) ==
    With(ExpectLiteral(text, ptr, <<80, 114, 111, 112, 67, 111, 117, 110, 116, 61>> (* PropCount= *)), LAMBDA literal :
    IF ~literal.ok THEN Res(FALSE, literal.pos, <<0, 0>>) ELSE
    With(ParseIntegerLiteral(text, literal.pos, FALSE, 64), LAMBDA count :
    IF ~count.ok \/ ~IsUInt32(count.value)
    THEN Res(FALSE, count.pos, <<0, 0>>)
    ELSE Res(TRUE, count.pos, SubSeq(count.value, 1, 2))))

\* An Exemplar::Property.
Property(id, type, isList, values) ==
    [id |-> id, type |-> type, isList |-> isList, values |-> values]

ParseTextProperty(text, ptr) ==
    LET none == Property(<<0, 0>>, "UInt32", FALSE, <<>>)
        Failed(pos) == IntRes(FALSE, pos, none, FALSE)
    IN  With(ParseIntegerLiteral(text, ptr, FALSE, 64), LAMBDA idValue :
        IF ~idValue.ok \/ ~IsUInt32(idValue.value) THEN Failed(idValue.pos) ELSE
        With(ExpectChar(text, idValue.pos, 58), LAMBDA colon :
        IF ~colon.ok THEN Failed(colon.pos) ELSE
        With(ParseStringLiteral(text, colon.pos), LAMBDA description :
        IF ~description.ok THEN Failed(description.pos) ELSE
        With(ExpectChar(text, description.pos, 61), LAMBDA assign :
        IF ~assign.ok THEN Failed(assign.pos) ELSE
        With(ParseIdentifier(text, assign.pos), LAMBDA typeToken :
        LET type == ParseValueTypeToken(typeToken.value)
            id == SubSeq(idValue.value, 1, 2)
        IN
        IF ~typeToken.ok \/ type = "nullopt" THEN Failed(typeToken.pos) ELSE
        With(ExpectChar(text, typeToken.pos, 58), LAMBDA prefix :
        IF ~prefix.ok THEN Failed(prefix.pos) ELSE
        \* length of a string and repetitions of a list
        With(ParseIntegerLiteral(text, prefix.pos, FALSE, 64), LAMBDA repetitions :
        IF ~repetitions.ok \/ IsNegative(repetitions.value)
        THEN Failed(repetitions.pos) ELSE
        With(ExpectChar(text, repetitions.pos, 58), LAMBDA separator :
        IF ~separator.ok THEN Failed(separator.pos)
        ELSE IF type = "String"
        THEN With(ParseStringLiteral(text, separator.pos), LAMBDA string :
             IF ~string.ok THEN Failed(string.pos)
             ELSE IntRes(TRUE, string.pos,
                         Property(id, type, FALSE,
                                  <<Value("std::string", string.value)>>),
                         FALSE))
        ELSE With(ParseValueArray(text, separator.pos, type), LAMBDA values :
             LET isScalar == repetitions.value = Int64Zero /\ Len(values.value) = 1
             IN  IF ~values.ok
                 THEN IntRes(FALSE, values.pos, none, values.undefined)
                 ELSE IntRes(TRUE, values.pos,
                             Property(id, type, ~isScalar, values.value),
                             values.undefined))))))))))

\* An Exemplar::Record.
ExemplarRecord(parent, isCohort, isText, properties) ==
    [parent |-> parent, isCohort |-> isCohort, isText |-> isText,
     properties |-> properties]

EmptyRecord ==
    ExemplarRecord(ParentTgi(<<0, 0>>, <<0, 0>>, <<0, 0>>), FALSE, FALSE, <<>>)

\* A ParseExpected<Exemplar::Record>; undefined: computed by an operation
\* whose behaviour is undefined.
Expected(ok, record, undefined) ==
    [ok |-> ok, record |-> record, undefined |-> undefined]

\* The loop of ParseTextExemplar over the property lines.
RECURSIVE TextPropertiesLoop(_, _, _, _)
TextPropertiesLoop(text, ptr, properties, undefined) ==
    IF AtEnd(text, ptr) THEN IntRes(TRUE, ptr, properties, undefined)
    ELSE With(ParseTextProperty(text, ptr), LAMBDA property :
             IF ~property.ok
             THEN IntRes(FALSE, property.pos, properties,
                         undefined \/ property.undefined)
             ELSE TextPropertiesLoop(text,
                      SkipWhitespace(text, property.pos),
                      Append(properties, property.value),
                      undefined \/ property.undefined))

\* The signature of a SignatureInfo.
SignatureInfo(isValid, isCohort, isText) ==
    [isValid |-> isValid, isCohort |-> isCohort, isText |-> isText]

HasBom(text) ==
    Len(text) >= 3 /\ text[1] = 239 /\ text[2] = 187 /\ text[3] = 191

ParseTextExemplar(buffer, info) ==
    LET text == IF HasBom(buffer) THEN SubSeq(buffer, 4, Len(buffer)) ELSE buffer
        start == SkipWhitespace(text, 0)
        expectedHeader == IF info.isCohort THEN <<67, 81, 90, 84, 49, 35, 35, 35>> (* CQZT1### *) ELSE <<69, 81, 90, 84, 49, 35, 35, 35>> (* EQZT1### *)
        alternativeHeader == IF info.isCohort THEN <<67, 81, 90, 84, 35, 35, 35, 35>> (* CQZT#### *) ELSE <<69, 81, 90, 84, 35, 35, 35, 35>> (* EQZT#### *)
        first == ConsumeLiteralCaseInsensitive(text, start, expectedHeader)
        failed == Expected(FALSE, EmptyRecord, FALSE)
    IN  With(IF first.ok THEN first
             ELSE ConsumeLiteralCaseInsensitive(text, start, alternativeHeader),
             LAMBDA header :
        IF ~header.ok THEN failed ELSE
        With(ParseTextParent(text, SkipWhitespace(text, header.pos)), LAMBDA parent :
        IF ~parent.ok THEN failed ELSE
        With(ParseTextPropertyCount(text, SkipWhitespace(text, parent.pos)),
             LAMBDA declaredCount :
        IF ~declaredCount.ok THEN failed ELSE
        With(TextPropertiesLoop(text, SkipWhitespace(text, declaredCount.pos),
                                <<>>, FALSE), LAMBDA properties :
        IF ~properties.ok
        THEN Expected(FALSE, EmptyRecord, properties.undefined)
        ELSE Expected(TRUE,
                      ExemplarRecord(parent.value, info.isCohort, TRUE,
                                     properties.value),
                      properties.undefined)))))
(***************************************************************************)
(* The binary dialect: a DBPF::SafeSpanReader over the bytes after the     *)
(* signature is the span and the offset of the next byte.  The lengths     *)
(* read are uint32_t, so offset + length does not wrap in size_t.          *)
(***************************************************************************)
kExemplarHeaderSize == 24

\* The little-endian value of some bytes, as limbs.
LEWord(bytes) ==
    [k \in 1..((Len(bytes) + 1) \div 2) |->
        bytes[2 * k - 1] + (IF 2 * k <= Len(bytes) THEN 256 * bytes[2 * k] ELSE 0)]

\* reader.ReadBytes(length) for a uint32_t length: the bytes themselves.
ReaderBytes(data, offset, length) ==
    IF ~IsSmall(length) \/ ToNat(length) > Len(data) - offset
    THEN Res(FALSE, offset, <<>>)
    ELSE Res(TRUE, offset + ToNat(length),
             SubSeq(data, offset + 1, offset + ToNat(length)))

\* reader.ReadLE<T>() and reader.Read<T>() for a T of `size` bytes.
ReaderReadLE(data, offset, size) ==
    LET bytes == ReaderBytes(data, offset, ToWord(size, 2))
    IN  Res(bytes.ok, bytes.pos, LEWord(bytes.value))

ToValueType(raw) ==
    CASE raw = 256 -> "UInt8"
      [] raw = 512 -> "UInt16"
      [] raw = 768 -> "UInt32"
      [] raw = 1792 -> "SInt32"
      [] raw = 2048 -> "SInt64"
      [] raw = 2304 -> "Float32"
      [] raw = 2816 -> "Bool"
      [] raw = 3072 -> "String"
      [] OTHER -> "nullopt"

ReadValue(data, offset, type) ==
    LET Of(alt, size) ==
            LET value == ReaderReadLE(data, offset, size)
            IN  Res(value.ok, value.pos, Value(alt, value.value))
        flag == ReaderReadLE(data, offset, 1)
        float == ReaderBytes(data, offset, ToWord(4, 2))
    IN  CASE type = "UInt8" -> Of("uint8_t", 1)
          [] type = "UInt16" -> Of("uint16_t", 2)
          [] type = "UInt32" -> Of("uint32_t", 4)
          [] type = "SInt32" -> Of("int32_t", 4)
          [] type = "SInt64" -> Of("int64_t", 8)
          [] type = "Float32" ->
                Res(float.ok, float.pos, Value("float", float.value))
          [] type = "Bool" ->
                Res(flag.ok, flag.pos,
                    Value("bool", IF flag.ok /\ flag.value # <<0>>
                                  THEN <<1>> ELSE <<0>>))
          [] OTHER -> Res(FALSE, offset, Value("std::string", <<>>))

ReadStringValue(data, offset, length) ==
    LET str == ReaderBytes(data, offset, length)
    IN  Res(str.ok, str.pos, Value("std::string", str.value))

\* The loop of key type 0x0080: `repetitions` values of the type, i read.
RECURSIVE ReadValuesLoop(_, _, _, _, _, _)
ReadValuesLoop(data, offset, type, repetitions, i, values) ==
    IF ~WordLess(ToWord(i, 2), repetitions) THEN Res(TRUE, offset, values)
    ELSE With(ReadValue(data, offset, type), LAMBDA value :
             IF ~value.ok THEN Res(FALSE, value.pos, values)
             ELSE ReadValuesLoop(data, value.pos, type, repetitions, i + 1,
                                 Append(values, value.value)))

\* The uint32_t at C++ index at of the string-array data (memcpy).
LengthAt(arrayData, at) == LEWord(SubSeq(arrayData, at + 1, at + 4))

\* The sum of the first i lengths of the offset table, in size_t.
RECURSIVE PrevLengths(_, _)
PrevLengths(arrayData, i) ==
    IF i = 0 THEN SizeT(0)
    ELSE WordAdd(PrevLengths(arrayData, i - 1),
                 Widen(LengthAt(arrayData, (i - 1) * 4), 4))

\* The loop of key type 0x0081 over the entries of the string array.
RECURSIVE StringArrayLoop(_, _, _, _)
StringArrayLoop(arrayData, entryCount, i, values) ==
    IF ~WordLess(ToWord(i, 2), entryCount) THEN Res(TRUE, 0, values)
    ELSE IF i * 4 + 4 > Len(arrayData) THEN Res(FALSE, 0, values)
    ELSE LET length == LengthAt(arrayData, i * 4)
             \* *entryCount * 4 is computed in uint32_t
             stringOffset == WordAdd(Widen(WordMul(entryCount, 4), 4),
                                     PrevLengths(arrayData, i))
             last == WordAdd(stringOffset, Widen(length, 4))
         IN  IF WordGreater(last, SizeT(Len(arrayData)))
             THEN Res(FALSE, 0, values)
             ELSE StringArrayLoop(arrayData, entryCount, i + 1,
                      Append(values,
                             Value("std::string",
                                   Slice(arrayData, ToNat(stringOffset),
                                         ToNat(length)))))

ParseBinaryProperty(data, offset) ==
    LET none == Property(<<0, 0>>, "UInt32", FALSE, <<>>)
        Failed(pos) == Res(FALSE, pos, none)
    IN  With(ReaderReadLE(data, offset, 4), LAMBDA id :
        IF ~id.ok THEN Failed(id.pos) ELSE
        With(ReaderReadLE(data, id.pos, 2), LAMBDA rawValueType :
        LET type == ToValueType(rawValueType.value[1])
        IN
        IF ~rawValueType.ok \/ type = "nullopt" THEN Failed(rawValueType.pos) ELSE
        With(ReaderReadLE(data, rawValueType.pos, 2), LAMBDA keyType :
        IF ~keyType.ok THEN Failed(keyType.pos)
        ELSE IF keyType.value = <<0>>
        THEN With(ReaderReadLE(data, keyType.pos, 1), LAMBDA lengthOrFlag :
             With(IF type = "String"
                  THEN ReadStringValue(data, lengthOrFlag.pos,
                                       Widen(lengthOrFlag.value, 2))
                  ELSE ReadValue(data, lengthOrFlag.pos, type), LAMBDA single :
             IF ~lengthOrFlag.ok \/ ~single.ok THEN Failed(single.pos)
             ELSE Res(TRUE, single.pos,
                      Property(id.value, type, FALSE, <<single.value>>))))
        ELSE IF keyType.value = <<128>>
        THEN With(ReaderBytes(data, keyType.pos, ToWord(1, 2)), LAMBDA skip :
             With(ReaderReadLE(data, skip.pos, 4), LAMBDA repetitions :
             IF ~skip.ok \/ ~repetitions.ok THEN Failed(skip.pos)
             ELSE IF type = "String"
             THEN With(ReadStringValue(data, repetitions.pos, repetitions.value),
                       LAMBDA string :
                  IF ~string.ok THEN Failed(string.pos)
                  ELSE Res(TRUE, string.pos,
                           Property(id.value, type, FALSE, <<string.value>>)))
             ELSE With(ReadValuesLoop(data, repetitions.pos, type,
                                      repetitions.value, 0, <<>>), LAMBDA list :
                  IF ~list.ok THEN Failed(list.pos)
                  ELSE Res(TRUE, list.pos,
                           Property(id.value, type, TRUE, list.value)))))
        ELSE IF keyType.value = <<129>>
        THEN With(ReaderBytes(data, keyType.pos, ToWord(1, 2)), LAMBDA skip :
             With(ReaderReadLE(data, skip.pos, 4), LAMBDA totalLength :
             With(ReaderReadLE(data, totalLength.pos, 4), LAMBDA entryCount :
             With(ReaderBytes(data, entryCount.pos, totalLength.value),
                  LAMBDA arrayData :
             With(StringArrayLoop(arrayData.value, entryCount.value, 0, <<>>),
                  LAMBDA strings :
             IF ~skip.ok \/ ~totalLength.ok \/ ~entryCount.ok \/ ~arrayData.ok
                 \/ ~strings.ok
             THEN Failed(skip.pos)
             ELSE Res(TRUE, arrayData.pos,
                      Property(id.value, type, TRUE, strings.value)))))))
        ELSE Failed(keyType.pos))))

\* The loop of ParseBinaryExemplar over propertyCount properties, i read.
RECURSIVE BinaryPropertiesLoop(_, _, _, _, _)
BinaryPropertiesLoop(data, offset, propertyCount, i, properties) ==
    IF ~WordLess(ToWord(i, 2), propertyCount) THEN Res(TRUE, offset, properties)
    ELSE With(ParseBinaryProperty(data, offset), LAMBDA property :
             IF ~property.ok THEN Res(FALSE, property.pos, properties)
             ELSE BinaryPropertiesLoop(data, property.pos, propertyCount, i + 1,
                                       Append(properties, property.value)))

ParseBinaryExemplar(buffer, info) ==
    LET data == SubSeq(buffer, 9, Len(buffer))
    IN  With(ReaderReadLE(data, 0, 4), LAMBDA parentType :
        With(ReaderReadLE(data, parentType.pos, 4), LAMBDA parentGroup :
        With(ReaderReadLE(data, parentGroup.pos, 4), LAMBDA parentInstance :
        With(ReaderReadLE(data, parentInstance.pos, 4), LAMBDA propertyCount :
        With(BinaryPropertiesLoop(data, propertyCount.pos,
                                  propertyCount.value, 0, <<>>),
             LAMBDA properties :
        IF \/ ~parentType.ok \/ ~parentGroup.ok \/ ~parentInstance.ok
           \/ ~propertyCount.ok \/ ~properties.ok
        THEN Expected(FALSE, EmptyRecord, FALSE)
        ELSE Expected(TRUE,
                      ExemplarRecord(ParentTgi(parentType.value, parentGroup.value,
                                               parentInstance.value),
                                     info.isCohort, FALSE, properties.value),
                      FALSE))))))

\* ParseSignature on a buffer of at least 8 bytes:
\* 'C' 67, 'E' 69, 'T' 84, 'B' 66, '1' 49, '#' 35.
ParseSignature(data) ==
    LET isCohort == data[1] = 67
        isExemplar == data[1] = 69
        isText == data[4] = 84
        isBinary == data[4] = 66
        versionOk == data[5] = 49 \/ data[5] = 35
        suffixOk == data[6] = 35 /\ data[7] = 35 /\ data[8] = 35
    IN  SignatureInfo((isBinary \/ isText) /\ versionOk /\ suffixOk
                          /\ (isCohort \/ isExemplar),
                      isCohort, isText)

\* Exemplar::Parse.
ExemplarParse(buffer) ==
    IF Len(buffer) < kExemplarHeaderSize THEN Expected(FALSE, EmptyRecord, FALSE)
    ELSE LET info == ParseSignature(buffer)
         IN  IF ~info.isValid THEN Expected(FALSE, EmptyRecord, FALSE)
             ELSE IF info.isText THEN ParseTextExemplar(buffer, info)
             ELSE ParseBinaryExemplar(buffer, info)

\* The alternatives of ValueVariant that std::is_integral_v holds of,
\* bool left out, and all eight alternatives; T ranges over the same names.
IntegerAlts == {"int32_t", "uint32_t", "int64_t", "uint8_t", "uint16_t"}

Alts == IntegerAlts \cup {"float", "bool", "std::string"}

\* static_cast<T>(val) of an integer val to an integral T: the value is
\* extended by its own signedness and cut to the width of T; to bool it
\* is val != 0.
StaticCast(T, val) ==
    LET fill == IF val.alt \in {"int32_t", "int64_t"} /\ IsNegative(val.bits)
                THEN 65535 ELSE 0
        wide == [i \in 1..4 |-> IF i <= Len(val.bits) THEN val.bits[i] ELSE fill]
    IN  CASE T = "bool" ->
                 Value(T, IF \E i \in 1..Len(val.bits) : val.bits[i] # 0
                          THEN <<1>> ELSE <<0>>)
          [] T = "uint8_t" -> Value(T, <<wide[1] % 256>>)
          [] T = "uint16_t" -> Value(T, <<wide[1]>>)
          [] T \in {"int32_t", "uint32_t"} -> Value(T, SubSeq(wide, 1, 2))
          [] OTHER -> Value(T, wide)

\* Property::GetScalarAs<T>(index): the optional as a sequence of at most
\* one value.
GetScalarAs(property, T, index) ==
    IF index >= Len(property.values) THEN <<>>
    ELSE LET val == property.values[index + 1]
         IN  IF val.alt = "std::string"
             THEN IF T = "std::string" THEN <<val>> ELSE <<>>
             ELSE IF val.alt = "bool"
             THEN IF T = "bool" THEN <<val>> ELSE <<>>
             ELSE IF val.alt = "float"
             THEN IF T = "float" THEN <<val>> ELSE <<>>
             \* std::is_integral_v<T> holds of the five integer types and of bool
             ELSE IF T \in IntegerAlts \cup {"bool"}
             THEN <<StaticCast(T, val)>>
             ELSE <<>>

\* Record::FindProperty returning the last property that has the id.
FindProperty_Last(record, id) ==
    LET hits == { i \in 1..Len(record.properties) : record.properties[i].id = id }
    IN  IF hits = {} THEN 0 ELSE CHOOSE i \in hits : \A j \in hits : j <= i

\* Record::FindProperty: the position in properties of the property the
\* returned pointer points to, 0 for nullptr.
FindProperty(record, id) ==
    LET hits == { i \in 1..Len(record.properties) : record.properties[i].id = id }
    IN  IF hits = {} THEN 0 ELSE CHOOSE i \in hits : \A j \in hits : i <= j
(***************************************************************************)
(* Exemplars the parser is run on, built the way the tests build theirs    *)
(* (src/tests/tests.cpp): binary buffers from property blocks, texts from  *)
(* property lines.                                                         *)
(***************************************************************************)
\* AppendRaw of a uint32_t and WriteUInt16LE: the bytes of a word.
RECURSIVE WordBytes(_)
WordBytes(w) ==
    IF w = <<>> THEN <<>>
    ELSE <<Head(w) % 256, Head(w) \div 256>> \o WordBytes(Tail(w))

\* The property ids of the inputs: 0x12345678, 0x0000DEAD and 0x27812850;
\* 0x00000010 is an id no input has.
IdA == <<22136, 4660>>

IdB == <<57005, 0>>

IdC == <<10320, 10113>>

IdNone == <<16, 0>>

Ids == {IdA, IdB, IdC}

IdText(id) ==
    CASE id = IdA -> <<48, 120, 49, 50, 51, 52, 53, 54, 55, 56>> (* 0x12345678 *)
      [] id = IdB -> <<48, 120, 48, 48, 48, 48, 68, 69, 65, 68>> (* 0x0000DEAD *)
      [] id = IdC -> <<48, 120, 50, 55, 56, 49, 50, 56, 53, 48>> (* 0x27812850 *)

\* MakeSingleUInt32Property(id, 0xCAFEBABE).
MakeSingleUInt32Property(id) ==
    WordBytes(id) \o <<0, 3, 0, 0, 0>> \o <<190, 186, 254, 202>>

\* MakeMultiFloatProperty(id, {1.0f, 2.5f}).
MakeMultiFloatProperty(id) ==
    WordBytes(id) \o <<0, 9, 128, 0, 0>> \o <<2, 0, 0, 0>>
        \o <<0, 0, 128, 63>> \o <<0, 0, 32, 64>>

\* MakeStringProperty(id, "Test").
MakeStringProperty(id) ==
    WordBytes(id) \o <<0, 12, 0, 0, 4>> \o <<84, 101, 115, 116>> (* Test *)

\* A string array "ab", "c": key type 0x0081, total length 11, 2 entries.
MakeStringArrayProperty(id) ==
    WordBytes(id) \o <<0, 12, 129, 0, 0>> \o <<11, 0, 0, 0>> \o <<2, 0, 0, 0>>
        \o <<2, 0, 0, 0>> \o <<1, 0, 0, 0>> \o <<97, 98, 99>> (* abc *)

\* The same string array under the value-type tag 0x0300 (uint32).
MakeUInt32StringArrayProperty(id) ==
    WordBytes(id) \o <<0, 3, 129, 0, 0>> \o <<11, 0, 0, 0>> \o <<2, 0, 0, 0>>
        \o <<2, 0, 0, 0>> \o <<1, 0, 0, 0>> \o <<97, 98, 99>> (* abc *)

\* A list of two sint32 values, -10 and 10.
MakeMultiSInt32Property(id) ==
    WordBytes(id) \o <<0, 7, 128, 0, 0>> \o <<2, 0, 0, 0>>
        \o <<246, 255, 255, 255>> \o <<10, 0, 0, 0>>

\* A single bool.
MakeBoolProperty(id) == WordBytes(id) \o <<0, 11, 0, 0, 0>> \o <<1>>

\* A block with the value-type tag 0x0400, which no type has.
MakeUnknownTypeProperty(id) == WordBytes(id) \o <<0, 4, 0, 0, 0>> \o <<1>>

BinaryForms ==
    {"uint32", "floats", "string", "strings", "uint32strings", "sint32s", "bool",
     "unknown"}

BinaryBlock(form, id) ==
    CASE form = "uint32" -> MakeSingleUInt32Property(id)
      [] form = "floats" -> MakeMultiFloatProperty(id)
      [] form = "string" -> MakeStringProperty(id)
      [] form = "strings" -> MakeStringArrayProperty(id)
      [] form = "uint32strings" -> MakeUInt32StringArrayProperty(id)
      [] form = "sint32s" -> MakeMultiSInt32Property(id)
      [] form = "bool" -> MakeBoolProperty(id)
      [] form = "unknown" -> MakeUnknownTypeProperty(id)

\* BuildExemplarBuffer: signature EQZB1###, parent, count, the blocks.
BuildExemplarBuffer(properties) ==
    <<69, 81, 90, 66, 49, 35, 35, 35>> (* EQZB1### *) \o <<0, 0, 0, 0>> \o <<0, 0, 0, 0>> \o <<0, 0, 0, 0>>
        \o WordBytes(ToWord(Len(properties), 2)) \o Concat(properties)

\* The property lines of the texts, after the id.
TextForms == {"uint32", "string", "floats", "bool", "sint32s", "named", "open"}

TextTail(form) ==
    CASE form = "uint32" -> <<58, 123, 34, 69, 120, 101, 109, 112, 108, 97, 114, 32, 84, 121, 112, 101, 34, 125, 61, 85, 105, 110, 116, 51, 50, 58, 48, 58, 123, 48, 120, 48, 48, 48, 48, 48, 48, 49, 69, 125>> (* :{"Exemplar Type"}=Uint32:0:{0x0000001E} *)
      [] form = "string" -> <<58, 123, 34, 69, 120, 101, 109, 112, 108, 97, 114, 32, 78, 97, 109, 101, 34, 125, 61, 83, 116, 114, 105, 110, 103, 58, 48, 58, 123, 34, 83, 71, 95, 80, 114, 111, 112, 34, 125>> (* :{"Exemplar Name"}=String:0:{"SG_Prop"} *)
      [] form = "floats" -> <<58, 123, 34, 79, 99, 99, 117, 112, 97, 110, 116, 32, 83, 105, 122, 101, 34, 125, 61, 70, 108, 111, 97, 116, 51, 50, 58, 51, 58, 123, 49, 48, 46, 53, 44, 55, 46, 50, 53, 44, 50, 101, 49, 125>> (* :{"Occupant Size"}=Float32:3:{10.5,7.25,2e1} *)
      [] form = "bool" -> <<58, 123, 34, 76, 105, 103, 104, 116, 34, 125, 61, 66, 111, 111, 108, 58, 48, 58, 123, 84, 114, 117, 101, 125>> (* :{"Light"}=Bool:0:{True} *)
      [] form = "sint32s" -> <<58, 123, 34, 80, 97, 114, 107, 32, 69, 102, 102, 101, 99, 116, 34, 125, 61, 83, 105, 110, 116, 51, 50, 58, 50, 58, 123, 48, 120, 70, 70, 70, 70, 70, 70, 70, 54, 44, 48, 120, 48, 48, 48, 48, 48, 48, 48, 65, 125>> (* :{"Park Effect"}=Sint32:2:{0xFFFFFFF6,0x0000000A} *)
      [] form = "named" -> <<58, 123, 34, 66, 117, 100, 103, 101, 116, 34, 125, 61, 83, 73, 78, 84, 54, 52, 58, 48, 58, 123, 32, 67, 111, 115, 116, 58, 32, 45, 53, 32, 125>> (* :{"Budget"}=SINT64:0:{ Cost: -5 } *)
      [] form = "open" -> <<58, 123, 34, 69, 120, 101, 109, 112, 108, 97, 114, 32, 84, 121, 112, 101, 34, 125, 61, 85, 105, 110, 116, 51, 50, 58, 48, 58, 123, 48, 120, 48, 48, 48, 48, 48, 48, 49, 69>> (* :{"Exemplar Type"}=Uint32:0:{0x0000001E *)

TextLine(form, id) == IdText(id) \o TextTail(form) \o <<10>>

\* "0x0000000N" for a count N below 10.
CountText(n) == <<48, 120, 48, 48, 48, 48, 48, 48, 48>> (* 0x0000000 *) \o <<48 + n>>

\* The UTF-8 byte order mark.
Bom == <<239, 187, 191>>

\* A text exemplar: optional BOM, header, parent block, count, lines.
BuildTextExemplar(bom, header, lines) ==
    (IF bom THEN Bom ELSE <<>>)
        \o header \o <<10>>
        \o <<80, 97, 114, 101, 110, 116, 67, 111, 104, 111, 114, 116, 61, 75, 101, 121, 58, 123, 48, 120, 48, 48, 48, 48, 48, 48, 48, 49, 44, 48, 120, 48, 48, 48, 48, 48, 48, 48, 50, 44, 48, 120, 48, 48, 48, 48, 48, 48, 48, 51, 125>> (* ParentCohort=Key:{0x00000001,0x00000002,0x00000003} *) \o <<10>>
        \o <<80, 114, 111, 112, 67, 111, 117, 110, 116, 61>> (* PropCount= *) \o CountText(Len(lines)) \o <<10>>
        \o Concat(lines)

TextHeader(variant) ==
    CASE variant = "cohort" -> <<67, 81, 90, 84, 49, 35, 35, 35>> (* CQZT1### *)
      [] variant = "alt" -> <<69, 81, 90, 84, 35, 35, 35, 35>> (* EQZT#### *)
      [] OTHER -> <<69, 81, 90, 84, 49, 35, 35, 35>> (* EQZT1### *)

\* The character of a hex digit, upper case.
HexChar(n) == IF n < 10 THEN 48 + n ELSE 55 + n

\* A hex literal: optional '-', "0x", the digits.
HexLiteralText(negative, digits) ==
    (IF negative THEN <<45>> ELSE <<>>) \o <<48, 120>>
        \o [i \in 1..Len(digits) |-> HexChar(digits[i])]

\* The text of one signed property whose value is the literal.
BuildLiteralExemplar(typeName, literal) ==
    BuildTextExemplar(FALSE, <<69, 81, 90, 84, 49, 35, 35, 35>> (* EQZT1### *),
        <<IdText(IdC) \o <<58, 123, 34, 80, 97, 114, 107, 32, 69, 102, 102, 101, 99, 116, 34, 125, 61>> (* :{"Park Effect"}= *) \o typeName \o <<58, 48, 58, 123>> (* :0:{ *)
              \o literal \o <<125>> (* } *) \o <<10>>>>)
(***************************************************************************)
(* Specification SpecExemplar: a buffer is built (binary blocks, text      *)
(* lines, or a text with one signed hex literal), its last byte may be     *)
(* dropped, Exemplar::Parse is run on it and FindProperty on the record.   *)
(***************************************************************************)
MaxProperties == 2

MaxHexDigits == 17

\* The properties of an input: what each is built from and its id.
PropertySpec(form, id) == [form |-> form, id |-> id]

\* Every form with one id, two of the forms with the other id as well.
PropertySpecs(forms) ==
    { PropertySpec(form, IdA) : form \in forms \cap {"uint32", "string", "sint32s", "unknown", "open"} }
        \cup { PropertySpec(form, IdB) : form \in forms \ {"sint32s", "unknown", "open"} }

\* What follows the first property of an input.
LaterSpecs ==
    {PropertySpec("uint32", IdB), PropertySpec("string", IdA), PropertySpec("uint32", IdA)}

SpecSeqs(forms) ==
    UNION { { specs \in [1..n -> PropertySpecs(forms)] :
                \A i \in 2..n : specs[i] \in LaterSpecs } :
            n \in 0..MaxProperties }

\* The texts built: plain, with a BOM, of a cohort, with the #### header.
TextVariants == {"plain", "bom", "cohort", "alt"}

\* Digit strings of 1..MaxHexDigits hex digits: a leading digit, a run of
\* 0 or F, a last digit.
HexDigitSeqs ==
    { <<h>> : h \in {0, 7, 8, 15} }
        \cup { <<h>> \o [i \in 1..n |-> f] \o <<l>> :
               h \in {0, 1, 7, 8, 15}, f \in {0, 15}, l \in {0, 6, 10},
               n \in 0..(MaxHexDigits - 2) }

ExmState(phase, dialect, ids, bom, typeName, negative, digits, buffer) ==
    [phase |-> phase, dialect |-> dialect, ids |-> ids, bom |-> bom,
     typeName |-> typeName, negative |-> negative, digits |-> digits,
     buffer |-> buffer, truncated |-> FALSE,
     parsed |-> Expected(FALSE, EmptyRecord, FALSE),
     id |-> IdNone, found |-> 0,
     prop |-> 0, asType |-> "none", index |-> 0, scalar |-> <<>>]

ExmIdle == exm = ExmState("idle", "none", <<>>, FALSE, "none", FALSE, <<>>, <<>>)

IdsOf(specs) == [i \in 1..Len(specs) |-> specs[i].id]

ExmBuildBinary ==
    /\ exm.phase = "idle"
    /\ \E specs \in SpecSeqs(BinaryForms) :
           exm' = ExmState("built", "binary", IdsOf(specs), FALSE, "none", FALSE,
                           <<>>,
                           BuildExemplarBuffer(
                               [i \in 1..Len(specs) |->
                                   BinaryBlock(specs[i].form, specs[i].id)]))
    /\ UNCHANGED notExmVars

ExmBuildText ==
    /\ exm.phase = "idle"
    /\ \E specs \in SpecSeqs(TextForms), variant \in TextVariants :
           /\ variant # "plain" => Len(specs) <= 1
           /\ exm' = ExmState("built", "text", IdsOf(specs), variant = "bom", "none",
                           FALSE, <<>>,
                           BuildTextExemplar(variant = "bom", TextHeader(variant),
                               [i \in 1..Len(specs) |->
                                   TextLine(specs[i].form, specs[i].id)]))
    /\ UNCHANGED notExmVars

\* "Sint32" and "Sint64".
SignedTypeNames == { <<83, 105, 110, 116, 51, 50>>, <<83, 105, 110, 116, 54, 52>> }

ExmBuildLiteral ==
    /\ exm.phase = "idle"
    /\ \E typeName \in SignedTypeNames, negative \in BOOLEAN,
          digits \in HexDigitSeqs :
           /\ exm' = ExmState("built", "literal", <<IdC>>, FALSE,
                           ParseValueTypeToken(typeName), negative, digits,
                           BuildLiteralExemplar(typeName,
                               HexLiteralText(negative, digits)))
    /\ UNCHANGED notExmVars

\* The buffer without its last byte.
ExmTruncate ==
    /\ exm.phase = "built"
    /\ exm.dialect = "binary"
    /\ Len(exm.ids) <= 1
    /\ ~exm.truncated
    /\ exm' = [exm EXCEPT !.buffer = SubSeq(@, 1, Len(@) - 1),
                          !.truncated = TRUE]
    /\ UNCHANGED notExmVars

\* What a build may return for a result: where the result was computed by
\* an overflowing negation, the wrapped value or any other record.
Outcomes(result) ==
    IF result.undefined
    THEN {result, [result EXCEPT !.record = EmptyRecord]}
    ELSE {result}

ExmParse ==
    /\ exm.phase = "built"
    /\ \E outcome \in Outcomes(ExemplarParse(exm.buffer)) :
           exm' = [exm EXCEPT !.phase = "parsed", !.parsed = outcome]
    /\ UNCHANGED notExmVars

ExmFindProperty ==
    /\ exm.phase = "parsed"
    /\ exm.parsed.ok
    /\ \E id \in Ids \cup {IdNone} :
           exm' = [exm EXCEPT !.phase = "found", !.id = id,
                              !.found = FindProperty(exm.parsed.record, id)]
    /\ UNCHANGED notExmVars

\* properties[prop].GetScalarAs<T>(index) of a parsed record.
ExmGetScalarAs ==
    /\ exm.phase = "parsed"
    /\ exm.parsed.ok
    /\ \E prop \in 1..Len(exm.parsed.record.properties), T \in Alts :
           \E index \in 0..Len(exm.parsed.record.properties[prop].values) :
               exm' = [exm EXCEPT !.phase = "scalar", !.prop = prop,
                                  !.asType = T, !.index = index,
                                  !.scalar = GetScalarAs(
                                      exm.parsed.record.properties[prop], T, index)]
    /\ UNCHANGED notExmVars

ExmNext ==
    \/ ExmBuildBinary
    \/ ExmBuildText
    \/ ExmBuildLiteral
    \/ ExmTruncate
    \/ ExmParse
    \/ ExmFindProperty
    \/ ExmGetScalarAs

(***************************************************************************)
(* C16: a text exemplar preceded by the UTF-8 BOM is accepted by Parse and *)
(* yields the record that the same text without the BOM yields.            *)
(***************************************************************************)
C16_BomTolerated ==
    (/\ exm.phase = "parsed"
     /\ exm.dialect = "text"
     /\ exm.bom)
        => exm.parsed = ExemplarParse(SubSeq(exm.buffer, 4, Len(exm.buffer)))

\* The number a hex digit string stands for, as 5 limbs: the digits taken
\* four at a time from the right.
DigitFromRight(digits, r) ==
    IF r < Len(digits) THEN digits[Len(digits) - r] ELSE 0

LiteralNumber(digits) ==
    [j \in 1..5 |->
        DigitFromRight(digits, 4 * (j - 1))
            + 16 * DigitFromRight(digits, 4 * (j - 1) + 1)
            + 256 * DigitFromRight(digits, 4 * (j - 1) + 2)
            + 4096 * DigitFromRight(digits, 4 * (j - 1) + 3)]

\* The number an int32_t bit pattern stands for: v - 2^32 when bit 31 of v
\* is set, v otherwise.
Int32Number(bits) ==
    IF bits[2] >= 32768 THEN (bits[2] - 65536) * 65536 + bits[1]
    ELSE bits[2] * 65536 + bits[1]

\* Whether the limbs of a number from limb `from` on are all zero.
ZeroFrom(number, from) == \A j \in from..Len(number) : number[j] = 0

(***************************************************************************)
(* C17: in a text exemplar a hex literal of an Sint32 property is read as  *)
(* a 32-bit two's-complement value (with bit 31 set, v - 2^32), a literal  *)
(* that needs more than 32 bits makes the parse fail, and an Sint64        *)
(* property is read the same way with 64 bits.                             *)
(***************************************************************************)
C17_SignedHexLiteral ==
    (/\ exm.phase = "parsed"
     /\ exm.dialect = "literal"
     /\ ~exm.negative)
        => LET number == LiteralNumber(exm.digits)
               limbs == IF exm.typeName = "SInt32" THEN 2 ELSE 4
               alt == IF exm.typeName = "SInt32" THEN "int32_t" ELSE "int64_t"
           IN  /\ exm.parsed.ok <=> ZeroFrom(number, limbs + 1)
               /\ exm.parsed.ok =>
                      /\ Len(exm.parsed.record.properties) = 1
                      /\ exm.parsed.record.properties[1].values
                             = <<Value(alt, SubSeq(number, 1, limbs))>>

\* 0xFFFFFFF6 read as the Sint32 -10.
C17_Witness ==
    /\ exm.phase = "parsed"
    /\ exm.typeName = "SInt32"
    /\ ~exm.negative
    /\ exm.digits = <<15, 15, 15, 15, 15, 15, 15, 6>>
    /\ exm.parsed.ok
    /\ Int32Number(exm.parsed.record.properties[1].values[1].bits) = 0 - 10

\* The position of the first of the ids that is id, 0 when none is.
FirstWithId(ids, id) ==
    IF \E i \in 1..Len(ids) : ids[i] = id
    THEN CHOOSE i \in 1..Len(ids) :
             ids[i] = id /\ \A j \in 1..(i - 1) : ids[j] # id
    ELSE 0

(***************************************************************************)
(* C18: for every successfully parsed exemplar, binary or text, the ids of *)
(* record.properties are the ids of the properties of the input in input   *)
(* order, and FindProperty(id) returns the first property in that order    *)
(* that has the id, or nothing when no property has it.                    *)
(***************************************************************************)
C18_PropertyOrder ==
    (exm.phase \in {"parsed", "found"} /\ exm.parsed.ok /\ ~exm.parsed.undefined)
        => /\ [i \in 1..Len(exm.parsed.record.properties) |->
                  exm.parsed.record.properties[i].id] = exm.ids
           /\ exm.phase = "found" => exm.found = FirstWithId(exm.ids, exm.id)

\* A binary exemplar with two properties of the same id: FindProperty
\* returned the first of them.
C18_Witness ==
    /\ exm.phase = "found"
    /\ exm.dialect = "binary"
    /\ exm.ids = <<IdB, IdB>>
    /\ exm.id = IdB
    /\ exm.found = 1
    /\ exm.parsed.record.properties[1].type = "String"
    /\ exm.parsed.record.properties[2].type = "UInt32"

\* The family of an alternative: the integers, or the alternative alone.
Family(alt) == IF alt \in IntegerAlts THEN "integer" ELSE alt

(***************************************************************************)
(* C21: GetScalarAs<T>(index) returns a value only when the stored value   *)
(* and T are of the same family (integer, float, bool, string), so never   *)
(* an integer as bool or a bool as an integer, and returns nothing for an  *)
(* index at or beyond the number of values.                                *)
(***************************************************************************)
C21_SameFamilyOnly ==
    exm.phase = "scalar" =>
        LET values == exm.parsed.record.properties[exm.prop].values
        IN  /\ exm.index >= Len(values) => exm.scalar = <<>>
            /\ exm.scalar # <<>> =>
                   /\ exm.index < Len(values)
                   /\ Family(values[exm.index + 1].alt) = Family(exm.asType)

\* The same with bool counted among the integers as a target, which is what
\* std::is_integral_v<T> does.
C21_IntegerReadAsBool ==
    exm.phase = "scalar" =>
        LET values == exm.parsed.record.properties[exm.prop].values
        IN  /\ exm.index >= Len(values) => exm.scalar = <<>>
            /\ exm.scalar # <<>> =>
                   /\ exm.index < Len(values)
                   /\ \/ Family(values[exm.index + 1].alt) = Family(exm.asType)
                      \/ /\ values[exm.index + 1].alt \in IntegerAlts
                         /\ exm.asType = "bool"

\* The alternative of ValueVariant that holds a value of the value type.
AltOf(type) ==
    CASE type = "UInt8" -> "uint8_t"
      [] type = "UInt16" -> "uint16_t"
      [] type = "UInt32" -> "uint32_t"
      [] type = "SInt32" -> "int32_t"
      [] type = "SInt64" -> "int64_t"
      [] type = "Float32" -> "float"
      [] type = "Bool" -> "bool"
      [] type = "String" -> "std::string"

\* Every value of the property is held in the alternative of its type.
ValuesOfType(property) ==
    \A v \in 1..Len(property.values) :
        property.values[v].alt = AltOf(property.type)

(***************************************************************************)
(* C27: after a successful binary or text parse, every stored value of     *)
(* every property has the variant type of the property's declared value    *)
(* type, for every value-type tag and every key type (0x0000, 0x0080,      *)
(* 0x0081).                                                                *)
(***************************************************************************)
C27_ValuesHaveDeclaredType ==
    exm.phase \in {"parsed", "found", "scalar"} /\ exm.parsed.ok =>
        \A p \in 1..Len(exm.parsed.record.properties) :
            ValuesOfType(exm.parsed.record.properties[p])

\* The same of every property that is not a list of strings: the values of
\* key type 0x0081 are the only list whose values are strings.
C27_DeclaredTypeButStringArrays ==
    exm.phase \in {"parsed", "found", "scalar"} /\ exm.parsed.ok =>
        \A p \in 1..Len(exm.parsed.record.properties) :
            LET property == exm.parsed.record.properties[p]
            IN  \/ ValuesOfType(property)
                \/ /\ property.isList
                   /\ \A v \in 1..Len(property.values) :
                          property.values[v].alt = "std::string"

\* A string array parsed under the tag of uint32: two strings, type UInt32.
C27_UInt32StringArrayParsed ==
    /\ exm.phase = "parsed"
    /\ exm.dialect = "binary"
    /\ exm.parsed.ok
    /\ Len(exm.parsed.record.properties) = 1
    /\ exm.parsed.record.properties[1].type = "UInt32"
    /\ exm.parsed.record.properties[1].isList
    /\ Len(exm.parsed.record.properties[1].values) = 2
    /\ exm.parsed.record.properties[1].values[1].alt = "std::string"

\* A text with a list of sint32 values next to a string, each in its type.
C27_TextTypesParsed ==
    /\ exm.phase = "parsed"
    /\ exm.dialect = "text"
    /\ exm.parsed.ok
    /\ Len(exm.parsed.record.properties) = 2
    /\ exm.parsed.record.properties[1].type = "SInt32"
    /\ exm.parsed.record.properties[1].values[1].alt = "int32_t"
    /\ exm.parsed.record.properties[2].type = "String"
    /\ exm.parsed.record.properties[2].values[1].alt = "std::string"

(***************************************************************************)
(* FSH: a decoded bitmap and its conversion to RGBA8                       *)
(* (FSHStructures.h, FSHReader.cpp).                                       *)
(***************************************************************************)

kCodeDXT1 == 96
kCodeDXT3 == 97
kCodeDXT5 == 98
kCode32Bit == 125
kCode24Bit == 127
kCode4444 == 109
kCode0565 == 120
kCode1555 == 126

\* struct Bitmap; the mip level plays no part in the conversion.
Bitmap(code, width, height, data) ==
    [code |-> code, width |-> width, height |-> height, data |-> data]

IsDXT(bitmap) == bitmap.code \in {kCodeDXT1, kCodeDXT3, kCodeDXT5}

BytesPerPixel(bitmap) ==
    CASE bitmap.code = kCode32Bit -> 4
      [] bitmap.code = kCode24Bit -> 3
      [] bitmap.code \in {kCode4444, kCode0565, kCode1555} -> 2
      [] OTHER -> 0

BlockCount(extent) == IF (extent + 3) \div 4 > 1 THEN (extent + 3) \div 4 ELSE 1

ExpectedDataSize(bitmap) ==
    CASE bitmap.code = kCodeDXT1 ->
             BlockCount(bitmap.width) * BlockCount(bitmap.height) * 8
      [] bitmap.code = kCodeDXT3 ->
             BlockCount(bitmap.width) * BlockCount(bitmap.height) * 16
      [] OTHER -> bitmap.width * bitmap.height * BytesPerPixel(bitmap)

\* The four bytes a 16-bit colour becomes.
ARGB4444ToRGBA8(color) ==
    LET a == (color \div 4096) % 16
        r == (color \div 256) % 16
        g == (color \div 16) % 16
        b == color % 16
    IN  <<(r * 16 + r) % 256, (g * 16 + g) % 256, (b * 16 + b) % 256,
          (a * 16 + a) % 256>>

RGB565ToRGBA8(color) ==
    LET r == (color \div 2048) % 32
        g == (color \div 32) % 64
        b == color % 32
    IN  <<(r * 8 + r \div 4) % 256, (g * 4 + g \div 16) % 256,
          (b * 8 + b \div 4) % 256, 255>>

ARGB1555ToRGBA8(color) ==
    LET a == (color \div 32768) % 2
        r == (color \div 1024) % 32
        g == (color \div 32) % 32
        b == color % 32
    IN  <<(r * 8 + r \div 4) % 256, (g * 8 + g \div 4) % 256,
          (b * 8 + b \div 4) % 256, IF a # 0 THEN 255 ELSE 0>>

\* *src at offset i of bitmap.data: the byte stored there, or, beyond the
\* end of the vector, whatever the memory after it holds.
SrcByte(data, i, beyond) == IF i < Len(data) THEN data[i + 1] ELSE beyond

\* memcpy(&color, src, 2) on a little-endian target.
SrcColor(data, i, beyond) ==
    SrcByte(data, i, beyond) + 256 * SrcByte(data, i + 1, beyond)

\* The bytes of bitmap.data that squish::DecompressImage reads: one block
\* per 4x4 tile, 8 bytes with kDxt1 and 16 with kDxt3 and kDxt5.
BlockBytes(code) == IF code = kCodeDXT1 THEN 8 ELSE 16

\* squish::DecompressImage.  The decoder is a library outside the
\* repository: it writes width * height RGBA pixels into the storage it is
\* given and reads every block of the image.  Of the colours only a
\* stand-in is kept: each pixel repeats the first byte of its block.
DecompressImage(rgba, width, height, blocks, code, beyond) ==
    [i \in 1..Len(rgba) |->
        LET pixel == (i - 1) \div 4
            x == pixel % width
            y == pixel \div width
            block == (y \div 4) * BlockCount(width) + (x \div 4)
        IN  SrcByte(blocks, block * BlockBytes(code), beyond)]

\* How many bytes of bitmap.data the conversion reads when it gets as far
\* as the switch.
Consumed(bitmap) ==
    CASE bitmap.code = kCode32Bit -> bitmap.width * bitmap.height * 4
      [] bitmap.code = kCode24Bit -> bitmap.width * bitmap.height * 3
      [] bitmap.code \in {kCode4444, kCode0565, kCode1555} ->
             bitmap.width * bitmap.height * 2
      [] IsDXT(bitmap) ->
             BlockCount(bitmap.width) * BlockCount(bitmap.height)
                 * BlockBytes(bitmap.code)
      [] OTHER -> 0

Converted(ok, outRGBA, undefined) ==
    [ok |-> ok, outRGBA |-> outRGBA, undefined |-> undefined]

\* outRGBA.assign(count, 0).
Assign(count) == [i \in 1..count |-> 0]

\* Reader::ConvertToRGBA8 given the vector the caller passes; beyond is the
\* value a read past the end of bitmap.data yields, and undefined says that
\* such a read happened.
ConvertToRGBA8(bitmap, outRGBA, beyond) ==
    LET pixelCount == bitmap.width * bitmap.height
        zeros == Assign(pixelCount * 4)
        short == Len(bitmap.data) < Consumed(bitmap)
        Pixels(Pixel(_)) ==
            [i \in 1..(pixelCount * 4) |-> Pixel((i - 1) \div 4)[((i - 1) % 4) + 1]]
    IN  IF bitmap.width = 0 \/ bitmap.height = 0
        THEN Converted(FALSE, outRGBA, FALSE)
        ELSE IF IsDXT(bitmap) /\ (bitmap.width % 4 # 0 \/ bitmap.height % 4 # 0)
        THEN Converted(FALSE, zeros, FALSE)
        ELSE CASE bitmap.code = kCode32Bit ->
                      Converted(TRUE,
                          Pixels(LAMBDA p : <<SrcByte(bitmap.data, 4 * p + 2, beyond),
                                              SrcByte(bitmap.data, 4 * p + 1, beyond),
                                              SrcByte(bitmap.data, 4 * p, beyond),
                                              SrcByte(bitmap.data, 4 * p + 3, beyond)>>),
                          short)
               [] bitmap.code = kCode24Bit ->
                      Converted(TRUE,
                          Pixels(LAMBDA p : <<SrcByte(bitmap.data, 3 * p + 2, beyond),
                                              SrcByte(bitmap.data, 3 * p + 1, beyond),
                                              SrcByte(bitmap.data, 3 * p, beyond),
                                              255>>),
                          short)
               [] bitmap.code = kCode4444 ->
                      Converted(TRUE,
                          Pixels(LAMBDA p : ARGB4444ToRGBA8(SrcColor(bitmap.data, 2 * p, beyond))),
                          short)
               [] bitmap.code = kCode0565 ->
                      Converted(TRUE,
                          Pixels(LAMBDA p : RGB565ToRGBA8(SrcColor(bitmap.data, 2 * p, beyond))),
                          short)
               [] bitmap.code = kCode1555 ->
                      Converted(TRUE,
                          Pixels(LAMBDA p : ARGB1555ToRGBA8(SrcColor(bitmap.data, 2 * p, beyond))),
                          short)
               [] IsDXT(bitmap) ->
                      Converted(TRUE,
                          DecompressImage(zeros, bitmap.width, bitmap.height,
                                          bitmap.data, bitmap.code, beyond),
                          short)
               [] OTHER -> Converted(FALSE, zeros, FALSE)

(***************************************************************************)
(* FSH: Reader::Parse (FSHReader.cpp).  The file is a sequence of bytes    *)
(* and positions are C++ offsets into it; the 32-bit fields of the files   *)
(* tried stay below 2^31 and the files below 2^32 - 2^24 bytes, so that no *)
(* sum of Parse wraps.  A read at or beyond the end of the file yields     *)
(* `beyond`; hi is the end of the highest range read so far.               *)
(***************************************************************************)
kMagicSHPI == <<83, 72, 80, 73>>
kMagicG264 == <<71, 50, 54, 52>>
kMagicG266 == <<71, 50, 54, 54>>
kMagicG354 == <<71, 51, 53, 52>>

\* sizeof(FileHeader), and the bytes of the entry header that Parse reads.
kFileHeaderSize == 16

kEntryHeaderSize == 16

kDirectoryEntrySize == 8

\* FileHeader::IsValid on the four bytes of the magic.
IsValid(magic) == magic \in {kMagicSHPI, kMagicG264, kMagicG266, kMagicG354}

FileLE16(file, i, beyond) ==
    SrcByte(file, i, beyond) + 256 * SrcByte(file, i + 1, beyond)

FileLE32(file, i, beyond) ==
    FileLE16(file, i, beyond) + 65536 * FileLE16(file, i + 2, beyond)

\* ReadUInt24: three bytes, the first the most significant.
ReadUInt24(file, i, beyond) ==
    SrcByte(file, i, beyond) * 65536 + SrcByte(file, i + 1, beyond) * 256
        + SrcByte(file, i + 2, beyond)

\* The bytes file[from .. from + count - 1], those beyond the end included.
FileBytes(file, from, count, beyond) ==
    [i \in 1..count |-> SrcByte(file, from + i - 1, beyond)]

FshParsed(ok, entries, hi, undefined) ==
    [ok |-> ok, entries |-> entries, hi |-> hi, undefined |-> undefined]

Entry(formatCode, width, height, mipCount, bitmaps, label) ==
    [formatCode |-> formatCode, width |-> width, height |-> height,
     mipCount |-> mipCount, bitmaps |-> bitmaps, label |-> label]

\* How many bytes the reads of the entry header get through in a span of
\* `size` bytes: four single bytes, then six uint16_t.
HeaderBytesRead(size) ==
    IF size >= kEntryHeaderSize THEN kEntryHeaderSize
    ELSE IF size < 4 THEN size
    ELSE 4 + 2 * ((size - 4) \div 2)

\* std::max<int>(1, extent >> mip)
MipExtent(extent, mip) ==
    IF extent \div (2 ^ mip) >= 1 THEN extent \div (2 ^ mip) ELSE 1

\* The loop over the mip levels of one entry: the reader of the entry is at
\* `pos` of its span of `size` bytes, which starts at `offset` of the file.
RECURSIVE MipLoop(_, _, _, _, _, _, _, _, _, _, _)
MipLoop(file, offset, size, pos, code, width, height, mipCount, mip, bitmaps, beyond) ==
    IF mip > mipCount THEN [ok |-> TRUE, bitmaps |-> bitmaps, pos |-> pos]
    ELSE With(Bitmap(code, MipExtent(width, mip), MipExtent(height, mip), <<>>),
              LAMBDA bitmap :
        IF code \in {kCodeDXT1, kCodeDXT3}
              /\ (bitmap.width % 4 # 0 \/ bitmap.height % 4 # 0)
        THEN [ok |-> TRUE, bitmaps |-> bitmaps, pos |-> pos]
        ELSE With(ExpectedDataSize(bitmap), LAMBDA dataSize :
            IF pos + dataSize > size
            THEN [ok |-> FALSE, bitmaps |-> bitmaps, pos |-> pos]
            ELSE MipLoop(file, offset, size, pos + dataSize, code, width, height,
                         mipCount, mip + 1,
                         Append(bitmaps,
                                [bitmap EXCEPT !.data =
                                    FileBytes(file, offset + pos, dataSize, beyond)]),
                         beyond)))

\* The position of the first 0 in file[from .. to - 1], `to` when there is
\* none: std::find(labelStart, labelEnd, '\0').
RECURSIVE FindTerminator(_, _, _, _)
FindTerminator(file, from, to, beyond) ==
    IF from >= to \/ SrcByte(file, from, beyond) = 0 THEN from
    ELSE FindTerminator(file, from + 1, to, beyond)

\* The label of an entry and the end of the range read for it.
Attachment(file, offset, blockSize, nextOffset, beyond) ==
    With(offset + blockSize, LAMBDA attachmentOffset :
        IF blockSize = 0 \/ ~(attachmentOffset + 4 < nextOffset)
        THEN [label |-> <<>>, hi |-> 0]
        ELSE IF SrcByte(file, attachmentOffset, beyond) # 112
        THEN [label |-> <<>>, hi |-> attachmentOffset + 1]
        ELSE With(FindTerminator(file, attachmentOffset + 4, nextOffset, beyond),
                  LAMBDA terminator :
                 [label |-> FileBytes(file, attachmentOffset + 4,
                                      terminator - (attachmentOffset + 4), beyond),
                  hi |-> Min(terminator + 1, nextOffset)]))

\* The body of the loop over the entries for the span [offset, nextOffset):
\* the entry, or ok = FALSE, and the end of the highest range read.
ParseEntry(file, offset, nextOffset, beyond) ==
    With(nextOffset - offset, LAMBDA size :
        IF size < kEntryHeaderSize
        THEN [ok |-> FALSE, entry |-> Entry(0, 0, 0, 0, <<>>, <<>>),
              hi |-> offset + HeaderBytesRead(size)]
        ELSE With(MipLoop(file, offset, size, kEntryHeaderSize,
                          SrcByte(file, offset, beyond) % 128,
                          FileLE16(file, offset + 4, beyond),
                          FileLE16(file, offset + 6, beyond),
                          (FileLE16(file, offset + 14, beyond) \div 4096) % 16,
                          0, <<>>, beyond),
                  LAMBDA mips :
            IF ~mips.ok
            THEN [ok |-> FALSE, entry |-> Entry(0, 0, 0, 0, <<>>, <<>>),
                  hi |-> offset + mips.pos]
            ELSE With(Attachment(file, offset, ReadUInt24(file, offset + 1, beyond),
                                 nextOffset, beyond),
                      LAMBDA attachment :
                [ok |-> TRUE,
                 entry |-> Entry(SrcByte(file, offset, beyond) % 128,
                                 FileLE16(file, offset + 4, beyond),
                                 FileLE16(file, offset + 6, beyond),
                                 (FileLE16(file, offset + 14, beyond) \div 4096) % 16,
                                 mips.bitmaps, attachment.label),
                 hi |-> Max(offset + mips.pos, attachment.hi)])))

\* directory[i].offset, read from the directory behind the header.
DirectoryOffset(file, i) ==
    FileLE32(file, kFileHeaderSize + kDirectoryEntrySize * i + 4, 0)

\* offset >= fileSpan.size() || offset >= nextOffset
OffsetsInvalid(offset, nextOffset, size) == offset >= size \/ offset >= nextOffset

\* The loop over the entries from entry i on.  The span of an entry whose
\* successor starts beyond the end of the file is made by a subspan that
\* leaves the file: undefined behaviour.
RECURSIVE EntryLoop(_, _, _, _, _, _, _)
EntryLoop(file, numEntries, i, entries, hi, undefined, beyond) ==
    IF i >= numEntries THEN FshParsed(TRUE, entries, hi, undefined)
    ELSE With(IF i + 1 < numEntries THEN DirectoryOffset(file, i + 1) ELSE Len(file),
              LAMBDA nextOffset :
        IF OffsetsInvalid(DirectoryOffset(file, i), nextOffset, Len(file))
        THEN FshParsed(FALSE, <<>>, hi, undefined)
        ELSE With(ParseEntry(file, DirectoryOffset(file, i), nextOffset, beyond),
                  LAMBDA parsed :
            IF ~parsed.ok
            THEN FshParsed(FALSE, <<>>, Max(hi, parsed.hi),
                        undefined \/ nextOffset > Len(file))
            ELSE EntryLoop(file, numEntries, i + 1, Append(entries, parsed.entry),
                           Max(hi, parsed.hi), undefined \/ nextOffset > Len(file),
                           beyond)))

\* Parse from the point where fileSpan is settled.
ParseFile(file, beyond) ==
    IF Len(file) < kFileHeaderSize
    THEN FshParsed(FALSE, <<>>, 4 * (Len(file) \div 4), FALSE)
    ELSE IF ~IsValid(SubSeq(file, 1, 4))
    THEN FshParsed(FALSE, <<>>, kFileHeaderSize, FALSE)
    ELSE With(FileLE32(file, 8, 0), LAMBDA numEntries :
        IF numEntries > (Len(file) - kFileHeaderSize) \div kDirectoryEntrySize
        THEN FshParsed(FALSE, <<>>,
                    kFileHeaderSize + 4 * ((Len(file) - kFileHeaderSize) \div 4), FALSE)
        ELSE EntryLoop(file, numEntries, 0, <<>>,
                       kFileHeaderSize + kDirectoryEntrySize * numEntries, FALSE, beyond))

\* FSH::Reader::Parse(buffer).
FSHParse(buffer, beyond) ==
    IF Len(buffer) < kFileHeaderSize THEN FshParsed(FALSE, <<>>, 0, FALSE)
    ELSE IF IsQFSCompressed(buffer)
    THEN IF Decompress(buffer).result # "ok" THEN FshParsed(FALSE, <<>>, 0, FALSE)
         ELSE ParseFile(Decompress(buffer).output, beyond)
    ELSE ParseFile(buffer, beyond)

(***************************************************************************)
(* The bitmaps handed to the conversion.                                   *)
(***************************************************************************)

MaxExtent == 4

\* A format code outside the eight known ones.
CodeUnknown == 1

Codes ==
    {kCodeDXT1, kCodeDXT3, kCodeDXT5, kCode32Bit, kCode24Bit, kCode4444,
     kCode0565, kCode1555, CodeUnknown}

Extents == {0, 1, 2, MaxExtent}

\* Pixel data of a given size.
PixelData(size) == [i \in 1..size |-> (37 * i + 11) % 256]

\* The sizes bitmap.data can have: what Bitmap::ExpectedDataSize says, what
\* the conversion reads, and nothing at all.
DataSizes(bitmap) == {ExpectedDataSize(bitmap), Consumed(bitmap), 0}

\* What the caller's vector holds before the call: a fresh vector, or one
\* used before.
PriorOuts == {<<>>, <<1, 2, 3, 4>>}

\* What a read past the end of bitmap.data can yield.
BeyondBytes == {0, 255}

FshState(phase, bitmap, outRGBA, ok, undefined) ==
    [phase |-> phase, bitmap |-> bitmap, outRGBA |-> outRGBA, ok |-> ok,
     undefined |-> undefined]

(***************************************************************************)
(* The files handed to Parse.                                              *)
(***************************************************************************)
UInt16Bytes(n) == <<n % 256, n \div 256>>

FshUInt32Bytes(n) == UInt16Bytes(n % 65536) \o UInt16Bytes(n \div 65536)

\* An entry: record id, block size, width, height, centre, offsets (the
\* mip count in the high bits of the last), then the pixel data.
EntryBlock(record, blockSize, width, height, mipCount, data) ==
    <<record, blockSize \div 65536, (blockSize \div 256) % 256, blockSize % 256>>
    \o UInt16Bytes(width) \o UInt16Bytes(height) \o <<0, 0, 0, 0, 0, 0>>
    \o UInt16Bytes(mipCount * 4096) \o data

\* A file: the header, one directory entry per offset, the body.
FshFileBytes(magic, numEntries, offsets, body) ==
    magic \o FshUInt32Bytes(0) \o FshUInt32Bytes(numEntries) \o <<71, 73, 77, 88>>
    \o Concat([i \in DOMAIN offsets |-> <<48, 48, 48, 48>> \o FshUInt32Bytes(offsets[i])])
    \o body

\* The bytes of all mip levels 0..mipCount of a bitmap, as Parse sizes them.
RECURSIVE MipDataSize(_, _, _, _)
MipDataSize(code, width, height, mip) ==
    IF mip < 0 THEN 0
    ELSE ExpectedDataSize(Bitmap(code, MipExtent(width, mip), MipExtent(height, mip), <<>>))
         + MipDataSize(code, width, height, mip - 1)

\* An attachment that is a label ("AB"), and one that is not.
LabelAttachment == <<112, 0, 0, 0, 65, 66, 0, 9>>

OtherAttachment == <<111, 0, 0, 0, 65, 66, 67, 68>>

\* The offset of the first entry of a file with one and with two entries.
FirstOffset(numEntries) == kFileHeaderSize + kDirectoryEntrySize * numEntries

\* A distance that leads out of every file tried.
FarOff == 1000

MaxMipCount == 1

\* Files with one entry: every format code, with and without mip levels
\* and attachment, the block size 0, right, or pointing past the entry.
SingleEntryFiles ==
    { FshFileBytes(kMagicSHPI, 1, <<FirstOffset(1)>>,
                   EntryBlock(record, blockSize, extents[1], extents[2], mipCount,
                              PixelData(MipDataSize(record % 128, extents[1],
                                                    extents[2], mipCount)))
                   \o attachment) :
        <<record, extents, mipCount, attachment, blockSize>> \in
          { t \in (Codes \cup {kCode32Bit + 128})
                  \X {<<1, 1>>, <<MaxExtent, MaxExtent>>, <<0, 2>>}
                  \X (0..MaxMipCount)
                  \X {<<>>, LabelAttachment, OtherAttachment}
                  \X {0, 1, FarOff} :
              t[5] = 1 => t[4] # <<>> } }

\* The block size 1 stands for the size of the entry: header and data.
SizedEntryFiles ==
    { FshFileBytes(kMagicG264, 1, <<FirstOffset(1)>>,
                   EntryBlock(code, kEntryHeaderSize + MipDataSize(code, 1, 1, 0),
                              1, 1, 0, PixelData(MipDataSize(code, 1, 1, 0)))
                   \o attachment) :
        code \in {kCode32Bit, kCodeDXT5, kCode0565},
        attachment \in {LabelAttachment, OtherAttachment, <<112, 0, 0, 0, 65, 66>>} }

\* Files with two entries of one 32-bit pixel each, the second with a mip
\* level, whose directory offsets are right, swapped, equal, or lead out of
\* the file; whole and cut short.
TwoEntryBody ==
    EntryBlock(kCode32Bit, 0, 1, 1, 0, PixelData(4))
    \o EntryBlock(kCode32Bit, 0, 1, 1, 1, PixelData(8))

DirectoryOffsets ==
    {FirstOffset(2), FirstOffset(2) + kEntryHeaderSize + 4, FirstOffset(2) + FarOff}

TwoEntryFiles ==
    { SubSeq(FshFileBytes(kMagicG266, 2, offsets, TwoEntryBody), 1, n) :
        <<offsets, n>> \in
          (DirectoryOffsets \X DirectoryOffsets)
          \X {FirstOffset(2) + 8, FirstOffset(2) + kEntryHeaderSize + 4,
              FirstOffset(2) + 2 * kEntryHeaderSize + 8,
              FirstOffset(2) + 2 * kEntryHeaderSize + 12} }

\* A file with one entry cut short, a magic that is none of the four, and
\* entry counts the file has no room for.
BrokenFiles ==
    { SubSeq(FshFileBytes(kMagicG354, 1, <<FirstOffset(1)>>,
                          EntryBlock(kCode24Bit, 0, 2, 1, 0, PixelData(6))),
             1, n) : n \in {0, 15, 16, 20, 24, 27, 33, 40, 45, 46} }
    \cup { FshFileBytes(<<83, 72, 80, 88>>, 0, <<>>, <<>>) }
    \cup { FshFileBytes(kMagicSHPI, numEntries, <<FirstOffset(1)>>, <<>>) :
             numEntries \in {0, 1, 2, 2147483647} }

\* QFS streams: one raw record that holds a whole file (an empty one, and
\* one with a DXT5 entry), one that holds half a header, and one that does
\* not decode.
Compressed(file) ==
    <<16, 251, 0, 0, Len(file), 224 + (Len(file) \div 4 - 1)>> \o file \o <<252>>

CompressedFiles ==
    { Compressed(FshFileBytes(kMagicSHPI, 0, <<>>, <<>>)),
      Compressed(FshFileBytes(kMagicSHPI, 1, <<FirstOffset(1)>>,
                              EntryBlock(kCodeDXT5, 0, MaxExtent, MaxExtent, 0, <<>>))),
      Compressed(<<83, 72, 80, 73, 0, 0, 0, 0>>) \o [i \in 1..8 |-> 0],
      <<16, 251, 0, 0, 16, 227>> \o FshFileBytes(kMagicSHPI, 0, <<>>, <<>>) }

FshBuffers ==
    SingleEntryFiles \cup SizedEntryFiles \cup TwoEntryFiles \cup BrokenFiles
    \cup CompressedFiles

\* fileSpan of Parse: the buffer, or what it decompresses to.
FileSpan(buffer) ==
    IF Len(buffer) >= kFileHeaderSize /\ IsQFSCompressed(buffer)
          /\ Decompress(buffer).result = "ok"
    THEN Decompress(buffer).output
    ELSE buffer

FshFile(phase, buffer, result) == [phase |-> phase, buffer |-> buffer, result |-> result]

FshIdle ==
    /\ fsh = FshState("idle", Bitmap(0, 0, 0, <<>>), <<>>, FALSE, FALSE)
    /\ fshFile = FshFile("idle", <<>>, FshParsed(FALSE, <<>>, 0, FALSE))

\* A bitmap the caller has made itself.
FshMakeBitmap ==
    /\ fsh.phase = "idle" /\ fshFile.phase = "idle"
    /\ \E code \in Codes, width \in Extents, height \in Extents,
          outRGBA \in PriorOuts :
           \E size \in DataSizes(Bitmap(code, width, height, <<>>)) :
               fsh' = [fsh EXCEPT !.phase = "ready",
                                  !.bitmap = Bitmap(code, width, height, PixelData(size)),
                                  !.outRGBA = outRGBA]
    /\ UNCHANGED <<fshFile, notFshVars>>

\* FSH::Reader::Parse(buffer) returns.
FshReaderParse ==
    /\ fsh.phase = "idle" /\ fshFile.phase = "idle"
    /\ \E buffer \in FshBuffers, beyond \in BeyondBytes :
           fshFile' = FshFile("parsed", buffer, FSHParse(buffer, beyond))
    /\ UNCHANGED <<fsh, notFshVars>>

\* The caller takes a bitmap of the parsed Record for the conversion.
FshTakeBitmap ==
    /\ fsh.phase = "idle" /\ fshFile.phase = "parsed" /\ fshFile.result.ok
    /\ \E e \in DOMAIN fshFile.result.entries :
       \E b \in DOMAIN fshFile.result.entries[e].bitmaps, outRGBA \in PriorOuts :
           fsh' = [fsh EXCEPT !.phase = "ready",
                              !.bitmap = fshFile.result.entries[e].bitmaps[b],
                              !.outRGBA = outRGBA]
    /\ UNCHANGED <<fshFile, notFshVars>>

\* FSH::Reader::ConvertToRGBA8(bitmap, outRGBA) returns.
FshConvert ==
    /\ fsh.phase = "ready"
    /\ \E beyond \in BeyondBytes :
           LET result == ConvertToRGBA8(fsh.bitmap, fsh.outRGBA, beyond)
           IN  fsh' = [fsh EXCEPT !.phase = "converted",
                                  !.outRGBA = result.outRGBA,
                                  !.ok = result.ok,
                                  !.undefined = result.undefined]
    /\ UNCHANGED <<fshFile, notFshVars>>

\* The call reads past the end of bitmap.data and the read faults instead
\* of yielding a byte: the call never returns.
FshFault ==
    /\ fsh.phase = "ready"
    /\ ConvertToRGBA8(fsh.bitmap, fsh.outRGBA, 0).undefined
    /\ fsh' = [fsh EXCEPT !.phase = "faulted", !.undefined = TRUE]
    /\ UNCHANGED <<fshFile, notFshVars>>

FshNext ==
    \/ FshMakeBitmap
    \/ FshReaderParse
    \/ FshTakeBitmap
    \/ FshConvert
    \/ FshFault

\* C19: for every bitmap, whatever its format code, width and height, a
\* call of ConvertToRGBA8(b, out) that has returned leaves out with exactly
\* 4 * b.width * b.height bytes.
C19_OutHasFourBytesPerPixel ==
    fsh.phase = "converted"
        => Len(fsh.outRGBA) = 4 * fsh.bitmap.width * fsh.bitmap.height

\* The same for the bitmaps that have a pixel: it is the early return for
\* a zero width or height that leaves the vector as the caller passed it.
C19_HoldsWithPixels ==
    (fsh.phase = "converted" /\ fsh.bitmap.width # 0 /\ fsh.bitmap.height # 0)
        => Len(fsh.outRGBA) = 4 * fsh.bitmap.width * fsh.bitmap.height

\* A bitmap without pixels converted into a vector used before.
C19_ZeroExtentReached ==
    ~(/\ fsh.phase = "converted"
      /\ fsh.bitmap.width = 0
      /\ ~fsh.ok
      /\ Len(fsh.outRGBA) = 4)

(***************************************************************************)
(* C25: Parse never reads a byte outside its input: for every header and   *)
(* directory, entry offsets beyond the end of the buffer, offsets that are *)
(* not ascending and block sizes that point past the entry included, Parse *)
(* fails or reads only offsets below the size of the buffer.               *)
(***************************************************************************)
C25_ParseReadsInsideBuffer ==
    fshFile.phase = "parsed" => fshFile.result.hi <= Len(FileSpan(fshFile.buffer))

\* The directory offsets of the file Parse has looped over lie inside it.
OffsetsInside(file) ==
    /\ Len(file) >= kFileHeaderSize
    /\ FileLE32(file, 8, 0) <= (Len(file) - kFileHeaderSize) \div kDirectoryEntrySize
    /\ \A i \in 0..(FileLE32(file, 8, 0) - 1) : DirectoryOffset(file, i) <= Len(file)

\* The same for the files none of whose directory offsets leads out of the
\* file.
C25_InsideWhenOffsetsInside ==
    (fshFile.phase = "parsed" /\ OffsetsInside(FileSpan(fshFile.buffer)))
        => /\ fshFile.result.hi <= Len(FileSpan(fshFile.buffer))
           /\ ~fshFile.result.undefined

\* Parse has read the header and the pixel of an entry that starts 8 bytes
\* before the end of the file and whose successor is said to start beyond
\* it.
C25_ReadBeyondReached ==
    /\ fshFile.phase = "parsed"
    /\ Len(fshFile.buffer) = FirstOffset(2) + 8
    /\ DirectoryOffset(fshFile.buffer, 0) = FirstOffset(2)
    /\ DirectoryOffset(fshFile.buffer, 1) = FirstOffset(2) + FarOff
    /\ fshFile.result.hi = FirstOffset(2) + kEntryHeaderSize + 4
    /\ fshFile.result.undefined

\* Parse has succeeded on a file whose block size points past the entry,
\* and on one with a label.
C25_BlockSizePastEntryReached ==
    /\ fshFile.phase = "parsed" /\ fshFile.result.ok
    /\ ReadUInt24(fshFile.buffer, FirstOffset(1) + 1, 0) = FarOff
    /\ fshFile.result.hi <= Len(fshFile.buffer)

C25_LabelReached ==
    /\ fshFile.phase = "parsed" /\ fshFile.result.ok
    /\ Len(fshFile.result.entries) = 1
    /\ fshFile.result.entries[1].label = <<65, 66>>
    /\ fshFile.result.hi = Len(fshFile.buffer) - 1

(***************************************************************************)
(* C26: every bitmap Parse produces carries at least as many data bytes as *)
(* ConvertToRGBA8 consumes for its format code and dimensions, so that the *)
(* conversion of a parsed bitmap never reads beyond bitmap.data, for all   *)
(* eight format codes, DXT5 included.                                      *)
(***************************************************************************)
\* The bytes the conversion of this bitmap reads.
Reads(bitmap) ==
    IF bitmap.width = 0 \/ bitmap.height = 0 THEN 0
    ELSE IF IsDXT(bitmap) /\ (bitmap.width % 4 # 0 \/ bitmap.height % 4 # 0) THEN 0
    ELSE Consumed(bitmap)

C26_ParsedBitmapCoversConversion ==
    /\ (fshFile.phase = "parsed" /\ fshFile.result.ok) =>
           \A e \in DOMAIN fshFile.result.entries :
           \A b \in DOMAIN fshFile.result.entries[e].bitmaps :
               Len(fshFile.result.entries[e].bitmaps[b].data)
                   >= Reads(fshFile.result.entries[e].bitmaps[b])
    /\ (fshFile.phase = "parsed" /\ fsh.phase \in {"converted", "faulted"}) =>
           ~fsh.undefined

\* The same for the seven format codes other than DXT5.
C26_CoversConversionButDXT5 ==
    /\ (fshFile.phase = "parsed" /\ fshFile.result.ok) =>
           \A e \in DOMAIN fshFile.result.entries :
           \A b \in DOMAIN fshFile.result.entries[e].bitmaps :
               fshFile.result.entries[e].bitmaps[b].code # kCodeDXT5 =>
                   Len(fshFile.result.entries[e].bitmaps[b].data)
                       >= Reads(fshFile.result.entries[e].bitmaps[b])
    /\ (/\ fshFile.phase = "parsed" /\ fsh.phase \in {"converted", "faulted"}
        /\ fsh.bitmap.code # kCodeDXT5) =>
           ~fsh.undefined

\* A parsed DXT5 bitmap of 4x4 pixels, which has no data byte, has been
\* converted; and a parsed DXT1 bitmap with its 8 bytes.
C26_EmptyDXT5Converted ==
    /\ fshFile.phase = "parsed" /\ fsh.phase = "converted"
    /\ fsh.bitmap = Bitmap(kCodeDXT5, MaxExtent, MaxExtent, <<>>)
    /\ fsh.ok /\ fsh.undefined

C26_DXT1Converted ==
    /\ fshFile.phase = "parsed" /\ fsh.phase = "converted"
    /\ fsh.bitmap.code = kCodeDXT1 /\ Len(fsh.bitmap.data) = 8
    /\ fsh.ok /\ ~fsh.undefined

(***************************************************************************)
(* TGI catalog (src/src/TGI.cpp): the table of masks and labels, and the   *)
(* lookup of the label of a key.  A pointer to a row is the row itself.    *)
(***************************************************************************)
TgiMask(type, group, instance) ==
    [type |-> type, group |-> group, instance |-> instance]

TgiLabel(mask, label) == [mask |-> mask, label |-> label]

kTgiCatalog ==
    <<
     TgiLabel(TgiMask(<<<<0, 0>>>>, <<<<0, 0>>>>, <<<<0, 0>>>>), "-")  (* 0,0,0 *),
     TgiLabel(TgiMask(<<<<7919, 59499>>>>, <<<<7919, 59499>>>>, <<<<7939, 10347>>>>), "Directory")  (* 0xe86b1eef,0xe86b1eef,0x286b1f03 *),
     TgiLabel(TgiMask(<<<<19552, 27623>>>>, <<<<19552, 27623>>>>, <<>>), "LD")  (* 0x6be74c60,0x6be74c60,* *),
     TgiLabel(TgiMask(<<<<59415, 23248>>>>, <<<<22513, 47835>>>>, <<>>), "S3D (Maxis)")  (* 0x5ad0e817,0xbadb57f1,* *),
     TgiLabel(TgiMask(<<<<59415, 23248>>>>, <<>>, <<>>), "S3D")  (* 0x5ad0e817,*,* *),
     TgiLabel(TgiMask(<<<<10337, 1332>>>>, <<>>, <<>>), "Cohort")  (* 0x05342861,*,* *),
     TgiLabel(TgiMask(<<<<10314, 25908>>>>, <<<<60819, 10273>>>>, <<>>), "Exemplar (Road)")  (* 0x6534284a,0x2821ed93,* *),
     TgiLabel(TgiMask(<<<<10314, 25908>>>>, <<<<746, 43306>>>>, <<>>), "Exemplar (Street)")  (* 0x6534284a,0xa92a02ea,* *),
     TgiLabel(TgiMask(<<<<10314, 25908>>>>, <<<<33995, 52192>>>>, <<>>), "Exemplar (One-Way Road)")  (* 0x6534284a,0xcbe084cb,* *),
     TgiLabel(TgiMask(<<<<10314, 25908>>>>, <<<<4012, 52083>>>>, <<>>), "Exemplar (Avenue)")  (* 0x6534284a,0xcb730fac,* *),
     TgiLabel(TgiMask(<<<<10314, 25908>>>>, <<<<16439, 43075>>>>, <<>>), "Exemplar (Highway)")  (* 0x6534284a,0xa8434037,* *),
     TgiLabel(TgiMask(<<<<10314, 25908>>>>, <<<<34001, 60384>>>>, <<>>), "Exemplar (Ground Highway)")  (* 0x6534284a,0xebe084d1,* *),
     TgiLabel(TgiMask(<<<<10314, 25908>>>>, <<<<34392, 27616>>>>, <<>>), "Exemplar (Dirt Road)")  (* 0x6534284a,0x6be08658,* *),
     TgiLabel(TgiMask(<<<<10314, 25908>>>>, <<<<31113, 59444>>>>, <<>>), "Exemplar (Rail)")  (* 0x6534284a,0xe8347989,* *),
     TgiLabel(TgiMask(<<<<10314, 25908>>>>, <<<<57339, 11129>>>>, <<>>), "Exemplar (Light Rail)")  (* 0x6534284a,0x2b79dffb,* *),
     TgiLabel(TgiMask(<<<<10314, 25908>>>>, <<<<33986, 60384>>>>, <<>>), "Exemplar (Monorail)")  (* 0x6534284a,0xebe084c2,* *),
     TgiLabel(TgiMask(<<<<10314, 25908>>>>, <<<<62450, 35349>>>>, <<>>), "Exemplar (Subway)")  (* 0x6534284a,0x8a15f3f2,* *),
     TgiLabel(TgiMask(<<<<10314, 25908>>>>, <<<<6498, 2190>>>>, <<>>), "Exemplar (Power Pole)")  (* 0x6534284a,0x088e1962,* *),
     TgiLabel(TgiMask(<<<<10314, 25908>>>>, <<<<22083, 35244>>>>, <<>>), "Exemplar (T21)")  (* 0x6534284a,0x89ac5643,* *),
     TgiLabel(TgiMask(<<<<10314, 25908>>>>, <<>>, <<>>), "Exemplar")  (* 0x6534284a,*,* *),
     TgiLabel(TgiMask(<<<<3652, 31413>>>>, <<<<30845, 6846>>>>, <<>>), "FSH (Misc)")  (* 0x7ab50e44,0x1abe787d,* *),
     TgiLabel(TgiMask(<<<<3652, 31413>>>>, <<<<4958, 2438>>>>, <<>>), "FSH (Base/Overlay Texture)")  (* 0x7ab50e44,0x0986135e,* *),
     TgiLabel(TgiMask(<<<<3652, 31413>>>>, <<<<30106, 11202>>>>, <<>>), "FSH (Shadow Mask)")  (* 0x7ab50e44,0x2BC2759a,* *),
     TgiLabel(TgiMask(<<<<3652, 31413>>>>, <<<<22777, 10788>>>>, <<>>), "FSH (Animation Sprites (Props))")  (* 0x7ab50e44,0x2a2458f9,* *),
     TgiLabel(TgiMask(<<<<3652, 31413>>>>, <<<<37863, 18853>>>>, <<>>), "FSH (Animation Sprites (Non Props))")  (* 0x7ab50e44,0x49a593e7,* *),
     TgiLabel(TgiMask(<<<<3652, 31413>>>>, <<<<3610, 35099>>>>, <<>>), "FSH (Terrain/Foundation)")  (* 0x7ab50e44,0x891b0e1a,* *),
     TgiLabel(TgiMask(<<<<3652, 31413>>>>, <<<<1712, 18080>>>>, <<>>), "FSH (UI Image)")  (* 0x7ab50e44,0x46a006b0,* *),
     TgiLabel(TgiMask(<<<<3652, 31413>>>>, <<>>, <<>>), "FSH")  (* 0x7ab50e44,*,* *),
     TgiLabel(TgiMask(<<<<30967, 10598>>>>, <<<<34856, 26982>>>>, <<>>), "SC4Path (2D)")  (* 0x296678f7,0x69668828,* *),
     TgiLabel(TgiMask(<<<<30967, 10598>>>>, <<<<34879, 43366>>>>, <<>>), "SC4Path (3D)")  (* 0x296678f7,0xa966883f,* *),
     TgiLabel(TgiMask(<<<<30967, 10598>>>>, <<>>, <<>>), "SC4Path")  (* 0x296678f7,*,* *),
     TgiLabel(TgiMask(<<<<56236, 34157>>>>, <<<<27942, 27192>>>>, <<>>), "PNG (Icon)")  (* 0x856ddbac,0x6a386d26,* *),
     TgiLabel(TgiMask(<<<<56236, 34157>>>>, <<>>, <<>>), "PNG")  (* 0x856ddbac,*,* *),
     TgiLabel(TgiMask(<<<<58019, 51811>>>>, <<<<36598, 19038>>>>, <<>>), "LUA")  (* 0xca63e2a3,0x4a5e8ef6,* *),
     TgiLabel(TgiMask(<<<<58019, 51811>>>>, <<<<36671, 19038>>>>, <<>>), "LUA (Generators)")  (* 0xca63e2a3,0x4a5e8f3f,* *),
     TgiLabel(TgiMask(<<<<38411, 8230>>>>, <<<<6451, 43597>>>>, <<>>), "WAV")  (* 0x2026960b,0xaa4d1933,* *),
     TgiLabel(TgiMask(<<<<38411, 8230>>>>, <<>>, <<>>), "LText")  (* 0x2026960b,*,* *),
     TgiLabel(TgiMask(<<<<0, 0>>>>, <<<<49128, 19079>>>>, <<<<49148, 10887>>>>), "INI (Font Table)")  (* 0,0x4a87bfe8,0x2a87bffc *),
     TgiLabel(TgiMask(<<<<0, 0>>>>, <<<<29125, 35417>>>>, <<<<37817, 35417>>>>), "INI (Networks)")  (* 0,0x8a5971c5,0x8a5993b9 *),
     TgiLabel(TgiMask(<<<<0, 0>>>>, <<<<29125, 35417>>>>, <<>>), "INI")  (* 0,0x8a5971c5,* *),
     TgiLabel(TgiMask(<<<<53067, 2651>>>>, <<<<53079, 43611>>>>, <<<<0, 4096>>>>), "RUL0 (Intersection Ordering)")  (* 0x0a5bcf4b,0xaa5bcf57,0x10000000 *),
     TgiLabel(TgiMask(<<<<6320, 59985>>>>, <<>>, <<>>), "EffDir")  (* 0xea5118b0,*,* *),
     TgiLabel(TgiMask(<<>>, <<>>, <<>>), "Unknown")  (* *,*,* *)
    >>

\* typeBuckets[type] and wildcard of gTgiLabelIndex, as the constructor
\* fills them: the rows in table order.
TypeBucket(type) ==
    SelectSeq(kTgiCatalog, LAMBDA entry : entry.mask.type = <<type>>)

Wildcard == SelectSeq(kTgiCatalog, LAMBDA entry : entry.mask.type = <<>>)

\* As CandidatesFor, but the wildcard rows come first.
CandidatesFor_WildcardFirst(type) == Wildcard \o TypeBucket(type)

CandidatesFor(type) == TypeBucket(type) \o Wildcard

\* The loop of Describe over the candidates.
RECURSIVE DescribeLoop(_, _)
DescribeLoop(candidates, t) ==
    IF candidates = <<>> THEN "Unknown"
    ELSE IF Matches(Head(candidates).mask, t) THEN Head(candidates).label
    ELSE DescribeLoop(Tail(candidates), t)

Describe(t) == DescribeLoop(CandidatesFor(t.type), t)

\* The keys tried: in each field, every value that a row of the table has
\* in that field, and one value that no row has.
FieldValues(field) ==
    {kTgiCatalog[i].mask[field][1] :
        i \in {j \in 1..Len(kTgiCatalog) : kTgiCatalog[j].mask[field] # <<>>}}
        \cup {U32(1)}

TgiKeys ==
    {Tgi(type, group, instance) :
        type \in FieldValues("type"), group \in FieldValues("group"),
        instance \in FieldValues("instance")}

Described(phase, key, label) == [phase |-> phase, key |-> key, label |-> label]

TgiIdle == described = Described("idle", Tgi(U32(0), U32(0), U32(0)), "")

\* Describe(key) of one key.
TgiDescribe ==
    /\ described.phase = "idle"
    /\ \E key \in TgiKeys :
           described' = Described("described", key, Describe(key))
    /\ UNCHANGED notTgiVars

TgiNext == TgiDescribe

\* The rows of the whole table whose mask matches the key.
MatchingRows(t) ==
    {i \in 1..Len(kTgiCatalog) : Matches(kTgiCatalog[i].mask, t)}

(***************************************************************************)
(* C29: Describe(key) returns the label of the first row of the table, in  *)
(* table order, whose mask matches the key, so the lookup by buckets       *)
(* answers as a linear first-match scan of the whole table does, and       *)
(* every key has such a row.                                               *)
(***************************************************************************)
C29_DescribeIsFirstMatch ==
    described.phase = "described" =>
        LET rows == MatchingRows(described.key)
        IN  /\ rows # {}
            /\ described.label =
                   kTgiCatalog[CHOOSE i \in rows : \A j \in rows : i <= j].label

\* A key of the Exemplar type with the group of the road exemplars: rows of
\* the bucket before it do not match, two rows of the bucket and the
\* wildcard row do.
C29_Witness ==
    /\ described.phase = "described"
    /\ described.label = "Exemplar (Road)"
    /\ Cardinality(MatchingRows(described.key)) = 3

\* A key of a type that has a bucket, matched by the wildcard row alone.
C29_BucketWithoutMatchReached ==
    /\ described.phase = "described"
    /\ described.label = "Unknown"
    /\ TypeBucket(described.key.type) # <<>>

(***************************************************************************)
(* S3D model reader (src/src/S3DReader.cpp).  ptr is the number of bytes   *)
(* before it in the buffer and end is the length of the buffer.  A parsed  *)
(* item is kept as the bytes it was read from; consecutive ReadValue calls *)
(* of fixed sizes are one read of their total size, since Parse returns    *)
(* false when any of them fails, and the Model is kept of a Parse that     *)
(* returned true only.  The bounding boxes, which no read depends on, are  *)
(* left out of the Model.                                                  *)
(***************************************************************************)
MAX_VERTEX_BUFFERS == 1000

MAX_INDEX_BUFFERS == 1000

MAX_PRIMITIVE_BLOCKS == 1000

MAX_MATERIALS == 1000

Tag3DMD == <<51, 68, 77, 68>>

TagHEAD == <<72, 69, 65, 68>>

TagVERT == <<86, 69, 82, 84>>

TagINDX == <<73, 78, 68, 88>>

TagPRIM == <<80, 82, 73, 77>>

TagMATS == <<77, 65, 84, 83>>

TagANIM == <<65, 78, 73, 77>>

\* ReadValue<T> and ReadBytes: size bytes at ptr.
S3DReadValue(data, ptr, size) ==
    IF ptr + size > Len(data) THEN Res(FALSE, ptr, <<>>)
    ELSE Res(TRUE, ptr + size, Slice(data, ptr, size))

SkipBytes(data, ptr, count) ==
    IF ptr + count > Len(data) THEN Res(FALSE, ptr, <<>>)
    ELSE Res(TRUE, ptr + count, <<>>)

\* As CheckMagic, but the bytes at ptr are not compared.
CheckMagic_AnyTag(data, ptr, expected) ==
    IF ptr + Len(expected) > Len(data) THEN Res(FALSE, ptr, <<>>)
    ELSE Res(TRUE, ptr + Len(expected), <<>>)

CheckMagic(data, ptr, expected) ==
    IF ptr + Len(expected) > Len(data) THEN Res(FALSE, ptr, <<>>)
    ELSE IF Slice(data, ptr, Len(expected)) # expected THEN Res(FALSE, ptr, <<>>)
    ELSE Res(TRUE, ptr + Len(expected), <<>>)

\* The number in a value of one or two bytes.
Number(bytes) == ToNat(LEWord(bytes))

\* The tag, the length and nbrBlocks of a chunk of blocks; value is
\* nbrBlocks.
BlocksHeader(data, ptr, tag, max) ==
    With(CheckMagic(data, ptr, tag), LAMBDA magic :
    With(S3DReadValue(data, magic.pos, 4), LAMBDA length :
    With(S3DReadValue(data, length.pos, 4), LAMBDA nbrBlocks :
        IF ~magic.ok \/ ~length.ok \/ ~nbrBlocks.ok
        THEN Res(FALSE, ptr, 0)
        ELSE IF WordGreater(LEWord(nbrBlocks.value), U32(max))
        THEN Res(FALSE, ptr, 0)
        ELSE Res(TRUE, nbrBlocks.pos, ToNat(LEWord(nbrBlocks.value))))))

ParseHEAD(data, ptr) ==
    With(CheckMagic(data, ptr, TagHEAD), LAMBDA magic :
    With(S3DReadValue(data, magic.pos, 4), LAMBDA length :
    With(S3DReadValue(data, length.pos, 2), LAMBDA majorVersion :
    With(S3DReadValue(data, majorVersion.pos, 2), LAMBDA minorVersion :
        IF ~magic.ok \/ ~length.ok \/ ~majorVersion.ok \/ ~minorVersion.ok
        THEN Res(FALSE, ptr, <<0, 0>>)
        ELSE IF Number(majorVersion.value) # 1 \/ Number(minorVersion.value) < 1
                \/ Number(minorVersion.value) > 5
        THEN Res(FALSE, ptr, <<0, 0>>)
        ELSE Res(TRUE, minorVersion.pos,
                 <<Number(majorVersion.value), Number(minorVersion.value)>>)))))

\* coordsNb, colorsNb and texsNb of a format, a uint32_t.
DecodeVertexFormat(format) ==
    IF format[2] >= 32768
    THEN [coordsNb |-> format[1] % 4, colorsNb |-> (format[1] \div 256) % 4,
          texsNb |-> (format[1] \div 16384) % 4]
    ELSE CASE format = U32(1) -> [coordsNb |-> 1, colorsNb |-> 1, texsNb |-> 0]
           [] format = U32(2) -> [coordsNb |-> 1, colorsNb |-> 0, texsNb |-> 1]
           [] format = U32(3) -> [coordsNb |-> 1, colorsNb |-> 0, texsNb |-> 2]
           [] format = U32(10) -> [coordsNb |-> 1, colorsNb |-> 1, texsNb |-> 1]
           [] format = U32(11) -> [coordsNb |-> 1, colorsNb |-> 1, texsNb |-> 2]
           [] OTHER -> [coordsNb |-> 1, colorsNb |-> 0, texsNb |-> 1]

\* The bytes ReadVertex reads before it looks at the stride.
VertexSize(decoded) ==
    12 + (IF decoded.colorsNb > 0 THEN 4 ELSE 0)
       + (IF decoded.texsNb > 0 THEN 8 ELSE 0)
       + (IF decoded.texsNb > 1 THEN 8 ELSE 0)

ReadVertex(data, ptr, format, stride) ==
    With(VertexSize(DecodeVertexFormat(format)), LAMBDA bytesRead :
    With(S3DReadValue(data, ptr, bytesRead), LAMBDA vertex :
        IF ~vertex.ok THEN vertex
        ELSE IF bytesRead < stride
        THEN With(SkipBytes(data, vertex.pos, stride - bytesRead), LAMBDA skip :
                 Res(skip.ok, skip.pos, vertex.value))
        ELSE vertex))

RECURSIVE VertexLoop(_, _, _, _, _, _, _)
VertexLoop(data, ptr, format, stride, count, v, vertices) ==
    IF v >= count THEN Res(TRUE, ptr, vertices)
    ELSE With(ReadVertex(data, ptr, format, stride), LAMBDA vertex :
             IF ~vertex.ok THEN Res(FALSE, ptr, vertices)
             ELSE VertexLoop(data, vertex.pos, format, stride, count, v + 1,
                             Append(vertices, vertex.value)))

\* One vertex buffer: flags and count, the format and the stride, the
\* vertices.
VertexBuffer(data, ptr, minorVersion) ==
    With(S3DReadValue(data, ptr, 4), LAMBDA head :
    With(S3DReadValue(data, head.pos, 4), LAMBDA layout :
        IF ~head.ok \/ ~layout.ok THEN Res(FALSE, ptr, <<>>)
        ELSE LET format == IF minorVersion >= 4
                           THEN LEWord(layout.value)
                           ELSE Widen(LEWord(SubSeq(layout.value, 1, 2)), 2)
                 decoded == DecodeVertexFormat(format)
                 stride == IF minorVersion >= 4
                           THEN 12 * decoded.coordsNb + 4 * decoded.colorsNb
                                    + 8 * decoded.texsNb
                           ELSE Number(SubSeq(layout.value, 3, 4))
             IN  With(VertexLoop(data, layout.pos, format, stride,
                                 Number(SubSeq(head.value, 3, 4)), 0, <<>>),
                      LAMBDA vertices :
                          Res(vertices.ok, vertices.pos,
                              [flags |-> SubSeq(head.value, 1, 2),
                               format |-> format,
                               vertices |-> vertices.value]))))

RECURSIVE VertLoop(_, _, _, _, _, _)
VertLoop(data, ptr, minorVersion, nbrBlocks, i, vertexBuffers) ==
    IF i >= nbrBlocks THEN Res(TRUE, ptr, vertexBuffers)
    ELSE With(VertexBuffer(data, ptr, minorVersion), LAMBDA vb :
             IF ~vb.ok THEN Res(FALSE, ptr, vertexBuffers)
             ELSE VertLoop(data, vb.pos, minorVersion, nbrBlocks, i + 1,
                           Append(vertexBuffers, vb.value)))

ParseVERT(data, ptr, minorVersion) ==
    With(BlocksHeader(data, ptr, TagVERT, MAX_VERTEX_BUFFERS), LAMBDA nbrBlocks :
        IF ~nbrBlocks.ok THEN Res(FALSE, ptr, <<>>)
        ELSE VertLoop(data, nbrBlocks.pos, minorVersion, nbrBlocks.value, 0, <<>>))

\* The items of a chunk whose blocks are a head of headSize bytes ending in
\* a uint16_t count, and count items of itemSize bytes: the index buffers
\* (6, 2) and the primitive blocks (2, 12).
RECURSIVE CountedLoop(_, _, _, _, _, _, _)
CountedLoop(data, ptr, headSize, itemSize, nbrBlocks, i, blocks) ==
    IF i >= nbrBlocks THEN Res(TRUE, ptr, blocks)
    ELSE With(S3DReadValue(data, ptr, headSize), LAMBDA head :
         IF ~head.ok THEN Res(FALSE, ptr, blocks)
         ELSE With(S3DReadValue(data, head.pos,
                       itemSize * Number(SubSeq(head.value, headSize - 1, headSize))),
                   LAMBDA items :
              IF ~items.ok THEN Res(FALSE, ptr, blocks)
              ELSE CountedLoop(data, items.pos, headSize, itemSize, nbrBlocks, i + 1,
                               Append(blocks, head.value \o items.value))))

ParseINDX(data, ptr) ==
    With(BlocksHeader(data, ptr, TagINDX, MAX_INDEX_BUFFERS), LAMBDA nbrBlocks :
        IF ~nbrBlocks.ok THEN Res(FALSE, ptr, <<>>)
        ELSE CountedLoop(data, nbrBlocks.pos, 6, 2, nbrBlocks.value, 0, <<>>))

ParsePRIM(data, ptr) ==
    With(BlocksHeader(data, ptr, TagPRIM, MAX_PRIMITIVE_BLOCKS), LAMBDA nbrBlocks :
        IF ~nbrBlocks.ok THEN Res(FALSE, ptr, <<>>)
        ELSE CountedLoop(data, nbrBlocks.pos, 2, 12, nbrBlocks.value, 0, <<>>))

\* The textures of a material: 11 bytes, 13 in minor version 5, the last
\* of them animNameLen, and the name.
RECURSIVE TextureLoop(_, _, _, _, _, _)
TextureLoop(data, ptr, minorVersion, textureCount, t, textures) ==
    IF t >= textureCount THEN Res(TRUE, ptr, textures)
    ELSE With(S3DReadValue(data, ptr, IF minorVersion = 5 THEN 13 ELSE 11),
              LAMBDA tex :
         IF ~tex.ok THEN Res(FALSE, ptr, textures)
         ELSE With(S3DReadValue(data, tex.pos, tex.value[Len(tex.value)]),
                   LAMBDA animName :
              IF ~animName.ok THEN Res(FALSE, ptr, textures)
              ELSE TextureLoop(data, animName.pos, minorVersion, textureCount, t + 1,
                               Append(textures, tex.value \o animName.value))))

\* The materials: 16 bytes, the last of them textureCount, and the
\* textures.
RECURSIVE MatsLoop(_, _, _, _, _, _)
MatsLoop(data, ptr, minorVersion, nbrBlocks, i, materials) ==
    IF i >= nbrBlocks THEN Res(TRUE, ptr, materials)
    ELSE With(S3DReadValue(data, ptr, 16), LAMBDA mat :
         IF ~mat.ok THEN Res(FALSE, ptr, materials)
         ELSE With(TextureLoop(data, mat.pos, minorVersion, mat.value[16], 0, <<>>),
                   LAMBDA textures :
              IF ~textures.ok THEN Res(FALSE, ptr, materials)
              ELSE MatsLoop(data, textures.pos, minorVersion, nbrBlocks, i + 1,
                            Append(materials,
                                   [material |-> mat.value,
                                    textures |-> textures.value]))))

ParseMATS(data, ptr, minorVersion) ==
    With(BlocksHeader(data, ptr, TagMATS, MAX_MATERIALS), LAMBDA nbrBlocks :
        IF ~nbrBlocks.ok THEN Res(FALSE, ptr, <<>>)
        ELSE MatsLoop(data, nbrBlocks.pos, minorVersion, nbrBlocks.value, 0, <<>>))

\* The animated meshes: nameLen and flags, the name without a final NUL,
\* and frameCount frames of 8 bytes.
RECURSIVE MeshLoop(_, _, _, _, _, _)
MeshLoop(data, ptr, frameCount, nbrMeshes, m, meshes) ==
    IF m >= nbrMeshes THEN Res(TRUE, ptr, meshes)
    ELSE With(S3DReadValue(data, ptr, 2), LAMBDA head :
         IF ~head.ok THEN Res(FALSE, ptr, meshes)
         ELSE With(S3DReadValue(data, head.pos, head.value[1]), LAMBDA name :
              IF ~name.ok THEN Res(FALSE, ptr, meshes)
              ELSE With(S3DReadValue(data, name.pos, 8 * frameCount), LAMBDA frames :
                   IF ~frames.ok THEN Res(FALSE, ptr, meshes)
                   ELSE MeshLoop(data, frames.pos, frameCount, nbrMeshes, m + 1,
                            Append(meshes,
                                   [flags |-> head.value[2],
                                    name |-> IF name.value # <<>>
                                                /\ name.value[Len(name.value)] = 0
                                             THEN SubSeq(name.value, 1,
                                                         Len(name.value) - 1)
                                             ELSE name.value,
                                    frames |-> frames.value])))))

\* The tag and the length, the 16 bytes from frameCount to nbrMeshes, the
\* meshes.
ParseANIM(data, ptr) ==
    With(CheckMagic(data, ptr, TagANIM), LAMBDA magic :
    With(S3DReadValue(data, magic.pos, 4), LAMBDA length :
    With(S3DReadValue(data, length.pos, 16), LAMBDA anim :
        IF ~magic.ok \/ ~length.ok \/ ~anim.ok THEN Res(FALSE, ptr, <<>>)
        ELSE With(MeshLoop(data, anim.pos, Number(SubSeq(anim.value, 1, 2)),
                           Number(SubSeq(anim.value, 15, 16)), 0, <<>>),
                  LAMBDA meshes :
                      Res(meshes.ok, meshes.pos,
                          [animation |-> anim.value,
                           animatedMeshes |-> meshes.value])))))

\* What Parse returns, the Model it has filled and the ptr it has reached.
S3DParsed(ok, ptr, version, parts) ==
    [ok |-> ok, ptr |-> ptr, version |-> version, parts |-> parts]

S3DParse(buffer) ==
    LET failed == S3DParsed(FALSE, 0, <<0, 0>>, <<>>)
    IN
    IF Len(buffer) < 12 THEN failed ELSE
    With(CheckMagic(buffer, 0, Tag3DMD), LAMBDA magic :
    With(S3DReadValue(buffer, magic.pos, 4), LAMBDA totalLength :
    IF ~magic.ok \/ ~totalLength.ok THEN failed ELSE
    With(ParseHEAD(buffer, totalLength.pos), LAMBDA head :
    IF ~head.ok THEN failed ELSE
    With(ParseVERT(buffer, head.pos, head.value[2]), LAMBDA vert :
    IF ~vert.ok THEN failed ELSE
    With(ParseINDX(buffer, vert.pos), LAMBDA indx :
    IF ~indx.ok THEN failed ELSE
    With(ParsePRIM(buffer, indx.pos), LAMBDA prim :
    IF ~prim.ok THEN failed ELSE
    With(ParseMATS(buffer, prim.pos, head.value[2]), LAMBDA mats :
    IF ~mats.ok THEN failed ELSE
    With(ParseANIM(buffer, mats.pos), LAMBDA anim :
    IF ~anim.ok THEN failed
    ELSE S3DParsed(TRUE, anim.pos, head.value,
                   <<vert.value, indx.value, prim.value, mats.value,
                     anim.value>>)))))))))

\* The inputs: the chunks are built as the format lays them out, each with
\* no block or with one, and then one edit is made to their sequence.
Repeat(byte, n) == [i \in 1..n |-> byte]

\* A chunk: the tag, the length of the chunk, the content.
Chunk(tag, content) == tag \o FshUInt32Bytes(8 + Len(content)) \o content

HeadContent(major, minor) == UInt16Bytes(major) \o UInt16Bytes(minor)

\* One vertex buffer of one vertex: format 10 in 4 bytes and 24 bytes of
\* vertex from minor version 4 on, before it format 2 and stride 24 in 2
\* bytes each, 20 bytes of vertex and 4 to skip.
VertContent(minor, one) ==
    IF ~one THEN FshUInt32Bytes(0)
    ELSE FshUInt32Bytes(1) \o UInt16Bytes(0) \o UInt16Bytes(1)
         \o (IF minor >= 4 THEN FshUInt32Bytes(10)
             ELSE UInt16Bytes(2) \o UInt16Bytes(24))
         \o Repeat(7, 24)

\* One index buffer of two indices.
IndxContent(one) ==
    IF ~one THEN FshUInt32Bytes(0)
    ELSE FshUInt32Bytes(1) \o UInt16Bytes(0) \o UInt16Bytes(2) \o UInt16Bytes(2)
         \o Repeat(1, 4)

\* One primitive block of one primitive.
PrimContent(one) ==
    IF ~one THEN FshUInt32Bytes(0)
    ELSE FshUInt32Bytes(1) \o UInt16Bytes(1) \o Repeat(2, 12)

\* One material with one texture, its animName of one byte.
MatsContent(minor, one) ==
    IF ~one THEN FshUInt32Bytes(0)
    ELSE FshUInt32Bytes(1) \o Repeat(3, 15) \o <<1>>
         \o Repeat(4, IF minor = 5 THEN 12 ELSE 10) \o <<1>> \o <<97>>

\* One frame; no mesh, or one mesh with the name "a" and a final NUL.
AnimContent(one) ==
    UInt16Bytes(1) \o Repeat(0, 12) \o UInt16Bytes(IF one THEN 1 ELSE 0)
        \o (IF one THEN <<2, 0>> \o <<97, 0>> \o Repeat(5, 8) ELSE <<>>)

Tags == <<TagHEAD, TagVERT, TagINDX, TagPRIM, TagMATS, TagANIM>>

Canonical == <<1, 2, 3, 4, 5, 6>>

Content(c, major, minor, full) ==
    CASE c = 1 -> HeadContent(major, minor)
      [] c = 2 -> VertContent(minor, c \in full)
      [] c = 3 -> IndxContent(c \in full)
      [] c = 4 -> PrimContent(c \in full)
      [] c = 5 -> MatsContent(minor, c \in full)
      [] c = 6 -> AnimContent(c \in full)

Edit(kind, at) == [kind |-> kind, at |-> at]

Edits ==
    {Edit(kind, 0) : kind \in {"none", "lengths", "short", "magic", "cut"}}
        \cup {Edit(kind, at) : kind \in {"drop", "dup", "stray"}, at \in 1..6}
        \cup {Edit(kind, at) : kind \in {"swap", "append"}, at \in 1..5}

\* The chunks of the input in their order, each by its place in Canonical.
Order(edit) ==
    CASE edit.kind = "drop" ->
            SelectSeq(Canonical, LAMBDA c : c # edit.at)
      [] edit.kind = "dup" ->
            SubSeq(Canonical, 1, edit.at) \o SubSeq(Canonical, edit.at, 6)
      [] edit.kind = "swap" ->
            [i \in 1..6 |-> IF i = edit.at THEN i + 1
                            ELSE IF i = edit.at + 1 THEN i - 1 ELSE i]
      [] edit.kind = "append" -> Canonical \o <<edit.at>>
      [] OTHER -> Canonical

BuildChunk(c, major, minor, full, edit) ==
    LET content == Content(c, major, minor, full)
    IN  (IF edit.kind = "lengths"
         THEN Tags[c] \o FshUInt32Bytes(0) \o content
         ELSE Chunk(Tags[c], content))
        \o (IF edit.kind = "stray" /\ edit.at = c THEN <<0>> ELSE <<>>)

BuildS3D(major, minor, full, edit) ==
    LET order == Order(edit)
        chunks == Concat([i \in 1..Len(order) |->
                             BuildChunk(order[i], major, minor, full, edit)])
        whole == (IF edit.kind = "magic" THEN TagHEAD ELSE Tag3DMD)
                     \o FshUInt32Bytes(8 + Len(chunks)) \o chunks
    IN  CASE edit.kind = "short" -> SubSeq(whole, 1, 11)
          [] edit.kind = "cut" -> SubSeq(whole, 1, Len(whole) - 1)
          [] OTHER -> whole

Versions == {<<1, 0>>, <<1, 1>>, <<1, 4>>, <<1, 5>>, <<1, 6>>, <<2, 1>>}

S3DState(phase, version, full, edit, buffer, parsed) ==
    [phase |-> phase, version |-> version, full |-> full, edit |-> edit,
     buffer |-> buffer, parsed |-> parsed]

S3dIdle ==
    s3d = S3DState("idle", <<0, 0>>, {}, Edit("none", 0), <<>>,
                   S3DParsed(FALSE, 0, <<0, 0>>, <<>>))

\* A buffer is made of chunks.
S3dBuild ==
    /\ s3d.phase = "idle"
    /\ \E version \in Versions, full \in SUBSET (2..6), edit \in Edits :
           s3d' = S3DState("built", version, full, edit,
                           BuildS3D(version[1], version[2], full, edit),
                           s3d.parsed)
    /\ UNCHANGED notS3dVars

\* Reader::Parse(buffer, outModel).
S3dParse ==
    /\ s3d.phase = "built"
    /\ s3d' = [s3d EXCEPT !.phase = "parsed", !.parsed = S3DParse(s3d.buffer)]
    /\ UNCHANGED notS3dVars

S3dNext ==
    \/ S3dBuild
    \/ S3dParse

\* The version of the input is one that ParseHEAD takes.
Supported(version) == version[1] = 1 /\ version[2] \in 1..5

\* The number of bytes of the input up to the end of the content of the
\* c-th chunk of it.
EndOf(c) ==
    8 + Len(Concat([i \in 1..c |->
                       BuildChunk(Order(s3d.edit)[i], s3d.version[1],
                                  s3d.version[2], s3d.full, s3d.edit)]))

(***************************************************************************)
(* C30: Parse succeeds only when the tags come in the order 3DMD, HEAD,    *)
(* VERT, INDX, PRIM, MATS, ANIM, each where the parsed content of the      *)
(* chunk before it ends; an input in which a chunk is missing, duplicated  *)
(* or out of order, or whose version is not major 1 with minor in 1..5,    *)
(* makes Parse fail.                                                       *)
(***************************************************************************)
C30_AnyOtherSequenceFails ==
    s3d.phase = "parsed" =>
        /\ s3d.parsed.ok =>
               /\ s3d.edit.kind \notin {"short", "magic", "cut"}
               /\ SubSeq(Order(s3d.edit), 1, 6) = Canonical
               /\ ~(s3d.edit.kind = "stray" /\ s3d.edit.at < 6)
               /\ Supported(s3d.version)
        /\ (Order(s3d.edit) # Canonical \/ ~Supported(s3d.version)) =>
               ~s3d.parsed.ok

\* The same of the chunks up to the end of the content of ANIM, where Parse
\* stops: what comes behind it, a further chunk included, is not looked at.
C30_SequenceUpToANIM ==
    s3d.phase = "parsed" =>
        /\ s3d.parsed.ok =>
               /\ s3d.edit.kind \notin {"short", "magic", "cut"}
               /\ SubSeq(Order(s3d.edit), 1, 6) = Canonical
               /\ ~(s3d.edit.kind = "stray" /\ s3d.edit.at < 6)
               /\ Supported(s3d.version)
               /\ s3d.parsed.ptr = EndOf(6) - (IF s3d.edit = Edit("stray", 6)
                                               THEN 1 ELSE 0)
        /\ (SubSeq(Order(s3d.edit), 1, Min(6, Len(Order(s3d.edit)))) # Canonical
                \/ ~Supported(s3d.version)) => ~s3d.parsed.ok
        /\ (s3d.edit.kind \in {"append"} \/ s3d.edit = Edit("dup", 6))
                /\ Supported(s3d.version) => s3d.parsed.ok

\* VERT twice in a row, every chunk with a block: Parse has failed.
C30_Witness ==
    /\ s3d.phase = "parsed"
    /\ s3d.edit = Edit("dup", 2)
    /\ s3d.full = 2..6
    /\ s3d.version = <<1, 5>>
    /\ ~s3d.parsed.ok

\* A second HEAD behind ANIM: Parse has returned true.
C30_TrailingChunkReached ==
    /\ s3d.phase = "parsed"
    /\ s3d.edit = Edit("append", 1)
    /\ s3d.parsed.ok
    /\ s3d.parsed.ptr < Len(s3d.buffer)

\* Every chunk with a block, the length fields zero: Parse has returned
\* true at the end of the buffer, in the older and in the newer layout.
C30_FullModelReached ==
    /\ s3d.phase = "parsed"
    /\ s3d.edit = Edit("lengths", 0)
    /\ s3d.full = 2..6
    /\ s3d.version = <<1, 1>>
    /\ s3d.parsed.ok
    /\ s3d.parsed.ptr = Len(s3d.buffer)
    /\ Len(s3d.parsed.parts[1]) = 1

(***************************************************************************)
(* Specifications: one per component, the other components at rest.        *)
(***************************************************************************)
QfsInit ==
    /\ input \in QfsInputs
    /\ dec = DecFrame0
    /\ SpanIdle
    /\ DbpfIdle
    /\ RulIdle
    /\ LTextIdle
    /\ ExmIdle
    /\ FshIdle
    /\ TgiIdle
    /\ S3dIdle

SpecQFS == QfsInit /\ [][QfsNext]_vars

SpanInit ==
    /\ mData \in { [i \in 1..n |-> 16 + i] : n \in 0..MaxSpan }
    /\ mOffset = 0
    /\ call = Call("none", SizeT(0), 0, "ok", SizeT(0))
    /\ QfsIdle
    /\ DbpfIdle
    /\ RulIdle
    /\ LTextIdle
    /\ ExmIdle
    /\ FshIdle
    /\ TgiIdle
    /\ S3dIdle

SpecSpan == SpanInit /\ [][SpanNext]_vars

DbpfInit ==
    /\ disk \in Archives
    /\ reader = Reader0
    /\ loaded = Loaded("none", 0, FALSE, FALSE)
    /\ ret = Ret("none", 0, 0, {}, NullOpt)
    /\ QfsIdle
    /\ SpanIdle
    /\ RulIdle
    /\ LTextIdle
    /\ ExmIdle
    /\ FshIdle
    /\ TgiIdle
    /\ S3dIdle

SpecDBPF == DbpfInit /\ [][DbpfNext]_vars

RulInit ==
    /\ RulIdle
    /\ QfsIdle
    /\ SpanIdle
    /\ DbpfIdle
    /\ LTextIdle
    /\ ExmIdle
    /\ FshIdle
    /\ TgiIdle
    /\ S3dIdle

SpecRUL0 == RulInit /\ [][RulNext]_vars

LTextInit ==
    /\ LTextIdle
    /\ QfsIdle
    /\ SpanIdle
    /\ DbpfIdle
    /\ RulIdle
    /\ ExmIdle
    /\ FshIdle
    /\ TgiIdle
    /\ S3dIdle

SpecLText == LTextInit /\ [][LTextNext]_vars

ExemplarInit ==
    /\ ExmIdle
    /\ QfsIdle
    /\ SpanIdle
    /\ DbpfIdle
    /\ RulIdle
    /\ LTextIdle
    /\ FshIdle
    /\ TgiIdle
    /\ S3dIdle

SpecExemplar == ExemplarInit /\ [][ExmNext]_vars

FshInit ==
    /\ FshIdle
    /\ QfsIdle
    /\ SpanIdle
    /\ DbpfIdle
    /\ RulIdle
    /\ LTextIdle
    /\ ExmIdle
    /\ TgiIdle
    /\ S3dIdle

SpecFSH == FshInit /\ [][FshNext]_vars

TgiInit ==
    /\ TgiIdle
    /\ QfsIdle
    /\ SpanIdle
    /\ DbpfIdle
    /\ RulIdle
    /\ LTextIdle
    /\ ExmIdle
    /\ FshIdle
    /\ S3dIdle

SpecTGI == TgiInit /\ [][TgiNext]_vars

S3dInit ==
    /\ S3dIdle
    /\ QfsIdle
    /\ SpanIdle
    /\ DbpfIdle
    /\ RulIdle
    /\ LTextIdle
    /\ ExmIdle
    /\ FshIdle
    /\ TgiIdle

SpecS3D == S3dInit /\ [][S3dNext]_vars

=========================================================================
